---- MODULE Spec2Model ----
(***************************************************************************)
(* Flamework core: the metadata store (reflect.ts), the dependency         *)
(* container (modding.ts) and the ignition orchestrator (flamework.ts),    *)
(* modelled as a state machine.                                            *)
(*                                                                         *)
(* Strings that the code inspects character by character (dependency       *)
(* identifiers) are sequences of one-character strings.  Every runtime     *)
(* value is a record of one shape, [k, t, n, s], so that values of         *)
(* different kinds can be compared.                                        *)
(***************************************************************************)
EXTENDS Integers, Sequences, FiniteSets, TLC

\* ------------------------------------------------------------------------
\* Bounds of the model
\* ------------------------------------------------------------------------
\* registration items (dependency edges, resolution options, load orders,
\* optional markers) defined before the first resolution
MaxSetup == 2
\* entries of dependencyResolution
MaxOverrides == 1
\* instances constructed of one class
MaxObjects == 2
\* calls of ignite()
MaxIgnite == 2
\* coroutines that exist at one time
MaxThreads == 2
\* callbacks the program subscribes with onListenerAdded and onListenerRemoved
MaxSubscriptions == 2

\* ------------------------------------------------------------------------
\* Values
\* ------------------------------------------------------------------------
Undefined == [k |-> "undefined", t |-> "", n |-> 0, s |-> <<>>]
\* a constructor (class table)
Class(T) == [k |-> "class", t |-> T, n |-> 0, s |-> <<>>]
\* an instance: setmetatable({}, ctor); its identity is its class and n, the
\* number of instances of the class constructed up to it
Instance(T, n) == [k |-> "object", t |-> T, n |-> n, s |-> <<>>]
StringValue(s) == [k |-> "string", t |-> "", n |-> 0, s |-> s]
NumberValue(n) == [k |-> "number", t |-> "", n |-> n, s |-> <<>>]
BooleanValue(b) == [k |-> "boolean", t |-> "", n |-> IF b THEN 1 ELSE 0, s |-> <<>>]
\* the object handed to registerDependency as a plain value
LiteralObject == [k |-> "literal", t |-> "", n |-> 42, s |-> <<>>]
\* what a registered factory returns for the constructor it is called with
FactoryObject(ctor, id) == [k |-> "factory", t |-> ctor, n |-> 0, s |-> id]
\* what options.handle returns for an identifier it answers
HandledObject(id, index) == [k |-> "handled", t |-> "", n |-> index, s |-> id]
\* what options.handlePrimitive returns
PrimitiveObject(id, index) == [k |-> "primitive", t |-> "", n |-> index, s |-> id]

\* ------------------------------------------------------------------------
\* The classes and identifiers of the modelled program
\* ------------------------------------------------------------------------
Types == {"A", "B", "C"}
\* a registered object that is not a constructor (isConstructor fails)
Interface == "I"
ArtificialDependency == "ArtificialDependency"
Objects == Types \cup {Interface, ArtificialDependency}
NoObject == ""

\* class C extends A
ParentOf == [o \in Objects |-> IF o = "C" THEN "A" ELSE NoObject]

IdA == <<"A">>
IdB == <<"B">>
IdC == <<"C">>
IdPB == <<"$", "p", "s", ":", "B">>
IdStr == <<"$", "p", "s", ":", "h", "i">>
IdNum == <<"$", "p", "n", ":", "4", "2">>
IdNaN == <<"$", "p", "n", ":", "h">>
IdBadPrim == <<"$", "p", "x", ":", "1">>
IdMissing == <<"X">>
IdIface == <<"I">>
IdArtificial == <<"@">>
NoId == <<>>
\* the identifier getIdentifier gives to an object that has none
UnidentifiedFlameworkListener == <<"?">>
AllIds == {IdA, IdB, IdC, IdPB, IdStr, IdNum, IdNaN, IdBadPrim, IdMissing, IdIface, IdArtificial,
           UnidentifiedFlameworkListener}

Keys == {"identifier", "flamework:parameters", "flamework:dependency_resolution",
         "flamework:singleton", "flamework:optional", "flamework:loadOrder",
         "flamework:implements", "flamework:decorators", "flamework:isPatched",
         "flamework:isExternal"}
\* a member of a class that metadata is defined for
Properties == {"member"}
\* no property given: the metadata of the object itself (NO_PROP_MARKER)
NoProperty == ""

\* lifecycle events, as they are listed under "flamework:implements"
OnInit == "OnInit"
OnStart == "OnStart"
OnTick == "OnTick"
OnPhysics == "OnPhysics"
OnRender == "OnRender"
\* the identifier of a class decorator, as listed under "flamework:decorators"
Marker == "Marker"
\* an identifier that some classes list under "flamework:implements" and
\* others under "flamework:decorators"
Both == "Both"
\* the identifiers the Listener Registry keeps interest sets for
EventIds == {OnInit, OnStart, OnTick, OnPhysics, OnRender, Marker, Both}
\* onListenerAdded and onListenerRemoved called without an identifier
NoEvent == ""

VARIABLES
    \* reflect.ts: the metadata of the objects themselves, the metadata of
    \* their properties, and the identifiers
    metadata, propertyMetadata, objToId, idToObj,
    \* flamework.ts before ignite() lost its configuration: flameworkConfig
    \* and the classes given to registerExternalClass
    flameworkConfig, externalClasses,
    \* modding.ts
    dependencyResolution, resolvedSingletons, loadingList, listeners,
    lifecycleListeners, decoratorListeners,
    listenerAdded, listenerRemoved, listenerAddedEvents, listenerRemovedEvents,
    \* the callbacks the program subscribed itself; what the last step called
    \* each of them with, and the Fire calls the last step made
    subscriptions, received, fired,
    \* the resolution in progress and the history of the container
    callStack, call, nextObject, ctorRuns, returned,
    \* flamework.ts: ignite() and its local variables
    hasFlameworkIgnited, ignitePc, rootsLeft, dependencies, init, start, tick,
    physics, render, initIndex, startIndex, connected, igniteError, inactiveThread,
    \* the coroutines made by reuseThread, what the lifecycle handlers of the
    \* program do, RunService.IsClient(), and the handlers the last step
    \* dispatched for a frame signal
    threads, handlers, isClient, frame,
    \* history of ignite(): calls made, calls that went past line 199, and the
    \* lifecycle handlers invoked
    wired, igniteCalls, ignitions, misuses, log,
    \* the same handlers dispatched with task.spawn(func) instead of
    \* reuseThread(func): the handlers that are suspended, and what handlers
    \* began and ended under reuseThread and under task.spawn
    spawned, reuseLog, spawnLog,
    \* the resolutions of other coroutines, which wait in a constructor that
    \* suspended: the call stack and the outermost call of each
    yielded

reflectVars == <<metadata, propertyMetadata, objToId, idToObj, flameworkConfig,
                 externalClasses>>
containerVars == <<dependencyResolution, resolvedSingletons, loadingList, listeners,
                   callStack, call, nextObject, ctorRuns, returned>>
igniteVars == <<hasFlameworkIgnited, ignitePc, rootsLeft, dependencies, init, start, tick,
                initIndex, startIndex, connected, igniteError, wired, igniteCalls,
                ignitions, misuses, log>>
\* the Listener Registry apart from listeners, and the live maps it feeds
registryVars == <<lifecycleListeners, decoratorListeners, listenerAdded, listenerRemoved,
                  listenerAddedEvents, listenerRemovedEvents, physics, render,
                  subscriptions>>
threadVars == <<inactiveThread, threads, handlers, isClient>>
\* what is recorded of the last step only
stepVars == <<received, fired, frame>>
\* what lives in other coroutines
spawnVars == <<spawned, reuseLog, spawnLog, yielded>>
vars == <<reflectVars, containerVars, igniteVars, registryVars, threadVars, stepVars,
          spawnVars>>

\* the instances the program can construct
Instances == {Instance(T, n) : T \in Types, n \in 1..MaxObjects}
\* a callback that was not called
NoCalls == [object \in Instances |-> 0]

\* a step that makes no call of the registry and dispatches no frame
QuietRegistry ==
    /\ fired' = <<>>
    /\ received' = [n \in DOMAIN received |-> NoCalls]

\* no frame signal: its phase, the instances whose handlers were begun,
\* whether the first of these handlers threw or suspended, and whether a
\* handler of the phase was suspended when the signal fired
NoFrame == [phase |-> NoEvent, begun |-> {}, stalled |-> FALSE, pending |-> FALSE]

QuietFrame == frame' = NoFrame

Quiet == QuietRegistry /\ QuietFrame

\* ------------------------------------------------------------------------
\* reflect.ts
\* ------------------------------------------------------------------------
Absent == [has |-> FALSE, v |-> Undefined]
Present(v) == [has |-> TRUE, v |-> v]

GetParentConstructor(obj) ==
    IF obj.k = "object" THEN Class(obj.t)
    ELSE IF obj.k = "class" /\ ParentOf[obj.t] # NoObject THEN Class(ParentOf[obj.t])
    ELSE Undefined

GetOwnMetadata(obj, key) ==
    IF obj.k = "class" THEN metadata[obj.t][key] ELSE Absent

RECURSIVE GetMetadata(_, _)
GetMetadata(obj, key) ==
    IF GetOwnMetadata(obj, key).has THEN GetOwnMetadata(obj, key)
    ELSE IF GetParentConstructor(obj) # Undefined
         THEN GetMetadata(GetParentConstructor(obj), key)
         ELSE Absent

RECURSIVE GetMetadatas(_, _)
GetMetadatas(obj, key) ==
    (IF GetOwnMetadata(obj, key).has THEN <<GetOwnMetadata(obj, key).v>> ELSE <<>>)
    \o (IF GetParentConstructor(obj) # Undefined
        THEN GetMetadatas(GetParentConstructor(obj), key)
        ELSE <<>>)

Constructors == Types \cup {ArtificialDependency}
IsConstructor(o) == o \in Constructors


\* ------------------------------------------------------------------------
\* Lua string helpers used by modding.ts
\* ------------------------------------------------------------------------
Min(a, b) == IF a < b THEN a ELSE b

\* string.sub(s, i, j), 1-based and inclusive, clamped to the string
StringSub(s, i, j) == SubSeq(s, i, Min(j, Len(s)))
\* string.sub(s, i)
StringFrom(s, i) == SubSeq(s, i, Len(s))

Digits == <<"0", "1", "2", "3", "4", "5", "6", "7", "8", "9">>
IsDigit(c) == \E d \in 1..10 : Digits[d] = c
DigitValue(c) == (CHOOSE d \in 1..10 : Digits[d] = c) - 1

RECURSIVE DecimalValue(_)
DecimalValue(s) ==
    IF s = <<>> THEN 0
    ELSE 10 * DecimalValue(SubSeq(s, 1, Len(s) - 1)) + DigitValue(s[Len(s)])

\* tonumber(s) for decimal digit strings; undefined (nil) for anything else
ToNumber(s) ==
    IF s # <<>> /\ \A i \in 1..Len(s) : IsDigit(s[i])
    THEN NumberValue(DecimalValue(s))
    ELSE Undefined

\* ------------------------------------------------------------------------
\* modding.ts: dependency resolution
\* ------------------------------------------------------------------------
NoError == [kind |-> "none", chain |-> <<>>, id |-> NoId, ctor |-> NoObject]
\* the message without the loading list
CircularDependency_Short(list, ctor) ==
    [kind |-> "CircularDependency", chain |-> <<ctor>>, id |-> NoId, ctor |-> ctor]

\* `Circular dependency detected ${loadingList.join(" <=> ")} <=> ${ctor}`
CircularDependency(list, ctor) ==
    [kind |-> "CircularDependency", chain |-> Append(list, ctor), id |-> NoId, ctor |-> ctor]
\* `Unexpected primitive dependency '${dependencyId}' while constructing ${ctor}`
UnexpectedPrimitive(dependencyId, ctor) ==
    [kind |-> "UnexpectedPrimitive", chain |-> <<>>, id |-> dependencyId, ctor |-> ctor]
\* `Could not find constructor for ${dependencyId} while constructing ${ctor}`
NoConstructor(dependencyId, ctor) ==
    [kind |-> "NoConstructor", chain |-> <<>>, id |-> dependencyId, ctor |-> ctor]
\* an error thrown by the body of a constructor
ConstructorError(ctor) ==
    [kind |-> "ConstructorError", chain |-> <<>>, id |-> NoId, ctor |-> ctor]

\* DependencyResolutionOptions: handle answers the identifiers in `answers`
\* and returns undefined for every other one
NoOptions == [hasHandle |-> FALSE, answers |-> {}, hasHandlePrimitive |-> FALSE]

\* an entry of the dependencyResolution map
NoResolution == [has |-> FALSE, fn |-> FALSE]
\* registerDependency wraps a plain value as () => dependency
ConstantResolution == [has |-> TRUE, fn |-> FALSE]
FactoryResolution == [has |-> TRUE, fn |-> TRUE]

\* resolution(ctor) of a registered entry
ApplyResolution(resolution, ctor, dependencyId) ==
    IF resolution.fn THEN FactoryObject(ctor, dependencyId) ELSE LiteralObject

\* what one step of the resolution decides
ReturnValue(v) == [act |-> "return", val |-> v, ctor |-> NoObject, err |-> NoError]
ThrowError(e) == [act |-> "throw", val |-> Undefined, ctor |-> NoObject, err |-> e]
EnterSingleton(ctor) == [act |-> "singleton", val |-> Undefined, ctor |-> ctor, err |-> NoError]
Construct(ctor) == [act |-> "construct", val |-> Undefined, ctor |-> ctor, err |-> NoError]

HandleResult(options, dependencyId, index) ==
    IF options.hasHandle /\ dependencyId \in options.answers
    THEN HandledObject(dependencyId, index)
    ELSE Undefined

\* the primitive encodings of lines 484-498
ResolvePrimitive(ctor, dependencyId, index, options) ==
    IF StringSub(dependencyId, 1, 3) = <<"$", "p", "s">>
    THEN ReturnValue(StringValue(StringFrom(dependencyId, 5)))
    ELSE IF StringSub(dependencyId, 1, 3) = <<"$", "p", "n">>
    THEN ReturnValue(IF ToNumber(StringFrom(dependencyId, 5)) # Undefined
                     THEN ToNumber(StringFrom(dependencyId, 5))
                     ELSE NumberValue(0))
    ELSE IF options.hasHandlePrimitive
    THEN ReturnValue(PrimitiveObject(dependencyId, index))
    ELSE ThrowError(UnexpectedPrimitive(dependencyId, ctor))

\* resolveDependency that returns undefined where it should throw
ResolveDependency_Lenient(ctor, dependencyId, index, options) ==
    IF options.hasHandle /\ HandleResult(options, dependencyId, index) # Undefined
    THEN ReturnValue(HandleResult(options, dependencyId, index))
    ELSE IF dependencyResolution[dependencyId].has
    THEN ReturnValue(ApplyResolution(dependencyResolution[dependencyId], ctor, dependencyId))
    ELSE IF idToObj[dependencyId] # NoObject /\ IsConstructor(idToObj[dependencyId])
    THEN EnterSingleton(idToObj[dependencyId])
    ELSE IF StringSub(dependencyId, 1, 2) = <<"$", "p">>
    THEN IF StringSub(dependencyId, 1, 3) \in {<<"$", "p", "s">>, <<"$", "p", "n">>}
            \/ options.hasHandlePrimitive
         THEN ResolvePrimitive(ctor, dependencyId, index, options)
         ELSE ReturnValue(Undefined)
    ELSE ReturnValue(Undefined)

\* resolveDependency that decodes a primitive before it looks for a
\* registered constructor
ResolveDependency_PrimitiveFirst(ctor, dependencyId, index, options) ==
    IF options.hasHandle /\ HandleResult(options, dependencyId, index) # Undefined
    THEN ReturnValue(HandleResult(options, dependencyId, index))
    ELSE IF dependencyResolution[dependencyId].has
    THEN ReturnValue(ApplyResolution(dependencyResolution[dependencyId], ctor, dependencyId))
    ELSE IF StringSub(dependencyId, 1, 2) = <<"$", "p">>
    THEN ResolvePrimitive(ctor, dependencyId, index, options)
    ELSE IF idToObj[dependencyId] # NoObject /\ IsConstructor(idToObj[dependencyId])
    THEN EnterSingleton(idToObj[dependencyId])
    ELSE ThrowError(NoConstructor(dependencyId, ctor))

\* resolveDependency that looks for a registered constructor before it looks
\* for a registered override
ResolveDependency_TypeFirst(ctor, dependencyId, index, options) ==
    IF options.hasHandle /\ HandleResult(options, dependencyId, index) # Undefined
    THEN ReturnValue(HandleResult(options, dependencyId, index))
    ELSE IF idToObj[dependencyId] # NoObject /\ IsConstructor(idToObj[dependencyId])
    THEN EnterSingleton(idToObj[dependencyId])
    ELSE IF dependencyResolution[dependencyId].has
    THEN ReturnValue(ApplyResolution(dependencyResolution[dependencyId], ctor, dependencyId))
    ELSE IF StringSub(dependencyId, 1, 2) = <<"$", "p">>
    THEN ResolvePrimitive(ctor, dependencyId, index, options)
    ELSE ThrowError(NoConstructor(dependencyId, ctor))

\* resolveDependency that does not look into dependencyResolution
ResolveDependency_NoOverride(ctor, dependencyId, index, options) ==
    IF options.hasHandle /\ HandleResult(options, dependencyId, index) # Undefined
    THEN ReturnValue(HandleResult(options, dependencyId, index))
    ELSE IF idToObj[dependencyId] # NoObject /\ IsConstructor(idToObj[dependencyId])
    THEN EnterSingleton(idToObj[dependencyId])
    ELSE IF StringSub(dependencyId, 1, 2) = <<"$", "p">>
    THEN ResolvePrimitive(ctor, dependencyId, index, options)
    ELSE ThrowError(NoConstructor(dependencyId, ctor))

\* Modding.resolveDependency, lines 461-501; the call of resolveSingleton at
\* line 481 is the decision EnterSingleton
ResolveDependency(ctor, dependencyId, index, options) ==
    IF options.hasHandle /\ HandleResult(options, dependencyId, index) # Undefined
    THEN ReturnValue(HandleResult(options, dependencyId, index))
    ELSE IF dependencyResolution[dependencyId].has
    THEN ReturnValue(ApplyResolution(dependencyResolution[dependencyId], ctor, dependencyId))
    ELSE IF idToObj[dependencyId] # NoObject /\ IsConstructor(idToObj[dependencyId])
    THEN EnterSingleton(idToObj[dependencyId])
    ELSE IF StringSub(dependencyId, 1, 2) = <<"$", "p">>
    THEN ResolvePrimitive(ctor, dependencyId, index, options)
    ELSE ThrowError(NoConstructor(dependencyId, ctor))

Includes(list, x) == \E i \in 1..Len(list) : list[i] = x

\* resolveSingleton that does not look into the cache
ResolveSingletonEntry_Uncached(ctor) ==
    IF Includes(loadingList, ctor) THEN ThrowError(CircularDependency(loadingList, ctor))
    ELSE Construct(ctor)

\* Modding.resolveSingleton, lines 377-379: the cache, then the loading list
ResolveSingletonEntry(ctor) ==
    IF resolvedSingletons[ctor] # Undefined THEN ReturnValue(resolvedSingletons[ctor])
    ELSE IF Includes(loadingList, ctor) THEN ThrowError(CircularDependency(loadingList, ctor))
    ELSE Construct(ctor)

\* Reflect.getOwnMetadata(ctor, "flamework:dependency_resolution"), line 384;
\* createDependency defaults a missing value to {}
OptionsOf(ctor) ==
    IF GetOwnMetadata(Class(ctor), "flamework:dependency_resolution").has
    THEN GetOwnMetadata(Class(ctor), "flamework:dependency_resolution").v
    ELSE NoOptions

\* Reflect.getMetadata(ctor, "flamework:parameters"), line 440
ParametersOf(ctor) ==
    IF GetMetadata(Class(ctor), "flamework:parameters").has
    THEN GetMetadata(Class(ctor), "flamework:parameters").v
    ELSE <<>>


\* ------------------------------------------------------------------------
\* modding.ts: the call tree of one resolution.  callStack holds one frame
\* per createDependency call in progress: the constructor, the position of
\* the next dependency to resolve (1-based) and the arguments resolved so far.
\* call describes the outermost call and how it ended.
\* ------------------------------------------------------------------------
Frame(ctor, options, singleton) ==
    [ctor |-> ctor, index |-> 1, args |-> <<>>, options |-> options, singleton |-> singleton]

NoCall == [op |-> "none", ctor |-> NoObject, id |-> NoId, status |-> "idle",
           val |-> Undefined, err |-> NoError, cached |-> FALSE]
NewCall(op, ctor, id) == [op |-> op, ctor |-> ctor, id |-> id, status |-> "running",
                          val |-> Undefined, err |-> NoError, cached |-> FALSE]
\* cached: the outermost call was answered by the singleton cache (line 378)
Returned(c, v) == [c EXCEPT !.status = "returned", !.val = v,
                            !.cached = (c.op # "resolveDependency" /\ callStack = <<>>)]
Threw(c, e) == [c EXCEPT !.status = "threw", !.err = e]

Top == callStack[Len(callStack)]
Pop(list) == SubSeq(list, 1, Len(list) - 1)

\* ignite() runs without suspending in these phases: no other task runs
IgniteSync == ignitePc \in {"roots", "init", "start"}

\* a value is returned to the caller: the frame that was resolving a
\* dependency stores it as its next argument, the outermost call ends
Deliver(stack, c, v) ==
    IF stack = <<>>
    THEN /\ callStack' = <<>>
         /\ call' = Returned(c, v)
    ELSE /\ callStack' = [stack EXCEPT ![Len(stack)] =
                            [@ EXCEPT !.args = Append(@, v), !.index = @ + 1]]
         /\ call' = c

\* an error propagates through every caller: nothing catches it
Raise(c, e) ==
    /\ callStack' = <<>>
    /\ call' = Threw(c, e)

\* an ignite() that goes on to the next constructor when a resolution threw
IgniteFollows_GoesOn ==
    /\ UNCHANGED <<ignitePc, igniteError>>
    /\ UNCHANGED <<hasFlameworkIgnited, rootsLeft, dependencies, init, start, initIndex,
                   startIndex, connected, wired, igniteCalls, ignitions, misuses, log,
                   threadVars>>
    /\ QuietFrame

\* an error of a resolution that ignite() called (line 207) leaves ignite()
IgniteFollows ==
    /\ ignitePc' = IF call'.op = "ignite" /\ call'.status = "threw" THEN "failed" ELSE ignitePc
    /\ igniteError' = IF call'.op = "ignite" /\ call'.status = "threw" THEN call'.err
                      ELSE igniteError
    /\ UNCHANGED <<hasFlameworkIgnited, rootsLeft, dependencies, init, start, initIndex,
                   startIndex, connected, wired, igniteCalls, ignitions, misuses, log,
                   threadVars>>
    /\ QuietFrame

\* the types under construction from the first entry of ctor on
CycleOf(list, ctor) ==
    {list[i] : i \in {j \in 1..Len(list) : \E k \in 1..j : list[k] = ctor}}

\* carries out what resolveDependency or resolveSingleton decided, for the
\* callers in stack; resolveSingleton, lines 377-385
Proceed(decision, stack, c) ==
    LET d == IF decision.act = "singleton" THEN ResolveSingletonEntry(decision.ctor)
             ELSE decision
    IN  /\ CASE d.act = "return" -> Deliver(stack, c, d.val) /\ UNCHANGED loadingList
              [] d.act = "throw" -> Raise(c, d.err) /\ UNCHANGED loadingList
              [] d.act = "construct" ->
                    /\ loadingList' = Append(loadingList, d.ctor)
                    /\ callStack' = Append(stack, Frame(d.ctor, OptionsOf(d.ctor), TRUE))
                    /\ call' = c
        /\ returned' = IF decision.act = "singleton" /\ d.act = "return"
                       THEN [returned EXCEPT ![decision.ctor] = @ \cup {d.val}]
                       ELSE returned
        /\ UNCHANGED <<resolvedSingletons, listeners, tick, nextObject, ctorRuns, registryVars>>
        /\ QuietRegistry

\* Modding.resolveSingleton(ctor), called from outside a resolution
ResolveSingleton(ctor) ==
    /\ callStack = <<>>
    /\ ~IgniteSync
    /\ Proceed(EnterSingleton(ctor), <<>>, NewCall("resolveSingleton", ctor, NoId))
    /\ IgniteFollows
    /\ UNCHANGED <<spawnVars, reflectVars, dependencyResolution>>

\* Flamework.resolveDependency(id), the Dependency<T>() macro:
\* Modding.resolveDependency(ArtificialDependency, id, 0, {})
Dependency(id) ==
    /\ callStack = <<>>
    /\ ~IgniteSync
    /\ Proceed(ResolveDependency(ArtificialDependency, id, 0, NoOptions), <<>>,
               NewCall("resolveDependency", ArtificialDependency, id))
    /\ IgniteFollows
    /\ UNCHANGED <<spawnVars, reflectVars, dependencyResolution>>

\* createDeferredDependency, lines 443-450: the next constructor dependency
\* of the innermost construction is resolved
ResolveNextDependency ==
    /\ callStack # <<>>
    /\ Top.index <= Len(ParametersOf(Top.ctor))
    /\ Proceed(ResolveDependency(Top.ctor, ParametersOf(Top.ctor)[Top.index],
                                 Top.index - 1, Top.options),
               callStack, call)
    /\ IgniteFollows
    /\ UNCHANGED <<spawnVars, reflectVars, dependencyResolution>>

\* Flamework._implements(object, id), lines 94-98
Implements(object, id) ==
    \E i \in 1..Len(GetMetadatas(object, "flamework:implements")) :
        Includes(GetMetadatas(object, "flamework:implements")[i], id)

\* ------------------------------------------------------------------------
\* modding.ts: the Listener Registry.  A Map is a function from its possible
\* keys to [has, v]; listeners is a function whose domain is its key set.  A
\* Signal is the sequence of the callbacks connected to it, and Fire calls
\* them in that order before it returns.  The operators below take the
\* registry and the live maps of ignite() as one record and return the
\* record after the call.
\* ------------------------------------------------------------------------
NoListeners == [object \in {} |-> Undefined]
NoSets == [id \in EventIds |-> Absent]
NoSignals == [id \in EventIds |-> Absent]

Registry ==
    [listeners |-> listeners, lifecycleListeners |-> lifecycleListeners,
     decoratorListeners |-> decoratorListeners,
     listenerAdded |-> listenerAdded, listenerRemoved |-> listenerRemoved,
     listenerAddedEvents |-> listenerAddedEvents,
     listenerRemovedEvents |-> listenerRemovedEvents,
     tick |-> tick, physics |-> physics, render |-> render,
     received |-> received, fired |-> fired]

\* the registry at the beginning of a step
Fresh == [Registry EXCEPT !.fired = <<>>, !.received = [n \in DOMAIN received |-> NoCalls]]

SetRegistry(st) ==
    /\ listeners' = st.listeners
    /\ lifecycleListeners' = st.lifecycleListeners
    /\ decoratorListeners' = st.decoratorListeners
    /\ listenerAdded' = st.listenerAdded
    /\ listenerRemoved' = st.listenerRemoved
    /\ listenerAddedEvents' = st.listenerAddedEvents
    /\ listenerRemovedEvents' = st.listenerRemovedEvents
    /\ tick' = st.tick
    /\ physics' = st.physics
    /\ render' = st.render
    /\ received' = st.received
    /\ fired' = st.fired

\* the callbacks of ignite(), lines 235-241, and the n-th callback of the
\* program
TickSet == [fn |-> "tick.set", n |-> 0]
PhysicsSet == [fn |-> "physics.set", n |-> 0]
RenderSet == [fn |-> "render.set", n |-> 0]
TickDelete == [fn |-> "tick.delete", n |-> 0]
PhysicsDelete == [fn |-> "physics.delete", n |-> 0]
RenderDelete == [fn |-> "render.delete", n |-> 0]
Callback(n) == [fn |-> "callback", n |-> n]

\* func(object)
Invoke(func, object, st) ==
    CASE func.fn = "tick.set" -> [st EXCEPT !.tick = @ \cup {object}]
      [] func.fn = "physics.set" -> [st EXCEPT !.physics = @ \cup {object}]
      [] func.fn = "render.set" -> [st EXCEPT !.render = @ \cup {object}]
      [] func.fn = "tick.delete" -> [st EXCEPT !.tick = @ \ {object}]
      [] func.fn = "physics.delete" -> [st EXCEPT !.physics = @ \ {object}]
      [] func.fn = "render.delete" -> [st EXCEPT !.render = @ \ {object}]
      [] func.fn = "callback" ->
            [st EXCEPT !.received[func.n][object] = @ + 1]

RECURSIVE InvokeAll(_, _, _)
InvokeAll(connections, object, st) ==
    IF connections = <<>> THEN st
    ELSE InvokeAll(Tail(connections), object, Invoke(Head(connections), object, st))

\* the identifiers whose interest sets hold the object
TrackedUnder(object, st) ==
    {id \in EventIds :
        \/ st.lifecycleListeners[id].has /\ object \in st.lifecycleListeners[id].v
        \/ st.decoratorListeners[id].has /\ object \in st.decoratorListeners[id].v}

\* signal.Fire(object); the call is recorded with the interest sets that
\* hold the object when it is made
Fire(connections, name, id, object, st) ==
    InvokeAll(connections, object,
              [st EXCEPT !.fired = Append(@, [signal |-> name, id |-> id, object |-> object,
                                             tracked |-> TrackedUnder(object, st)])])

\* events.get(id)?.Fire(object)
FireEvent(events, name, id, object, st) ==
    IF events[id].has THEN Fire(events[id].v, name, id, object, st) ELSE st

RECURSIVE Flatten(_)
Flatten(lists) == IF lists = <<>> THEN <<>> ELSE Head(lists) \o Flatten(Tail(lists))

\* loops that do not skip the identifiers the listener is tracked under
RECURSIVE AddEvents_NoSkip(_, _, _, _)
AddEvents_NoSkip(events, which, object, r) ==
    IF events = <<>> THEN r
    ELSE LET event == Head(events)
             inserted == [r.st EXCEPT ![which][event] =
                            Present((IF @.has THEN @.v ELSE {}) \cup {object})]
         IN  AddEvents_NoSkip(Tail(events), which, object,
                [st |-> FireEvent(inserted.listenerAddedEvents, "added", event, object, inserted),
                 listener |-> [eventIds |-> r.listener.eventIds \cup {event},
                               involvement |-> Append(r.listener.involvement,
                                                      [which |-> which, id |-> event])]])

\* the loops of addListener, lines 90-102 and 106-116; which is
\* "lifecycleListeners" or "decoratorListeners"
RECURSIVE AddEvents(_, _, _, _)
AddEvents(events, which, object, r) ==
    IF events = <<>> THEN r
    ELSE IF Head(events) \in r.listener.eventIds
    THEN AddEvents(Tail(events), which, object, r)
    ELSE LET event == Head(events)
             inserted == [r.st EXCEPT ![which][event] =
                            Present((IF @.has THEN @.v ELSE {}) \cup {object})]
         IN  AddEvents(Tail(events), which, object,
                [st |-> FireEvent(inserted.listenerAddedEvents, "added", event, object, inserted),
                 listener |-> [eventIds |-> r.listener.eventIds \cup {event},
                               involvement |-> Append(r.listener.involvement,
                                                      [which |-> which, id |-> event])]])

\* an addListener that inserts the object into the interest sets and keeps
\* no listener record of it
AddListenerTo_NoRecord(object, st) ==
    LET fresh == [st |-> st, listener |-> [eventIds |-> {}, involvement |-> <<>>]]
        lifecycle == AddEvents(Flatten(GetMetadatas(object, "flamework:implements")),
                               "lifecycleListeners", object, fresh)
        decorators == GetMetadata(object, "flamework:decorators")
        decorated == IF decorators.has
                     THEN AddEvents(decorators.v, "decoratorListeners", object, lifecycle)
                     ELSE lifecycle
    IN  Fire(decorated.st.listenerAdded, "added", NoEvent, object, decorated.st)

\* Modding.addListener(object), lines 84-121
AddListenerTo(object, st) ==
    LET fresh == [st |-> st, listener |-> [eventIds |-> {}, involvement |-> <<>>]]
        lifecycle == AddEvents(Flatten(GetMetadatas(object, "flamework:implements")),
                               "lifecycleListeners", object, fresh)
        decorators == GetMetadata(object, "flamework:decorators")
        decorated == IF decorators.has
                     THEN AddEvents(decorators.v, "decoratorListeners", object, lifecycle)
                     ELSE lifecycle
        set == [decorated.st EXCEPT !.listeners =
                    [o \in DOMAIN @ \cup {object} |->
                        IF o = object THEN decorated.listener ELSE @[o]]]
    IN  Fire(set.listenerAdded, "added", NoEvent, object, set)

\* a removeListener that leaves the interest sets as they are
DeleteFrom_None(involvement, object, st) == st

\* removeListener, lines 130-132
RECURSIVE DeleteFrom(_, _, _)
DeleteFrom(involvement, object, st) ==
    IF involvement = <<>> THEN st
    ELSE DeleteFrom(Tail(involvement), object,
                    [st EXCEPT ![Head(involvement).which][Head(involvement).id] =
                        Present(@.v \ {object})])

\* removeListener, lines 134-136, for the event ids in the order the set
\* hands them out
RECURSIVE FireRemoved(_, _, _)
FireRemoved(ids, object, st) ==
    IF ids = <<>> THEN st
    ELSE FireRemoved(Tail(ids), object,
                     FireEvent(st.listenerRemovedEvents, "removed", Head(ids), object, st))

\* a removeListener that fires the events before it deletes the object from
\* the interest sets
RemoveListenerFrom_FireFirst(object, ids, st) ==
    IF object \notin DOMAIN st.listeners THEN st
    ELSE LET listener == st.listeners[object]
             events == FireRemoved(ids, object, st)
             deleted == DeleteFrom(listener.involvement, object, events)
             gone == [deleted EXCEPT !.listeners =
                        [o \in DOMAIN @ \ {object} |-> @[o]]]
         IN  Fire(gone.listenerRemoved, "removed", NoEvent, object, gone)

\* Modding.removeListener(object), lines 126-140; ids is the order in which
\* listener.eventIds is iterated
RemoveListenerFrom(object, ids, st) ==
    IF object \notin DOMAIN st.listeners THEN st
    ELSE LET listener == st.listeners[object]
             deleted == DeleteFrom(listener.involvement, object, st)
             events == FireRemoved(ids, object, deleted)
             gone == [events EXCEPT !.listeners =
                        [o \in DOMAIN @ \ {object} |-> @[o]]]
         IN  Fire(gone.listenerRemoved, "removed", NoEvent, object, gone)

\* task.spawn(func, listener) for every listener of a set, lines 183-185 and
\* 190-192; the callbacks commute, so the order of the iteration is
\* immaterial
RECURSIVE Replay(_, _, _)
Replay(func, existingListeners, st) ==
    IF existingListeners = {} THEN st
    ELSE LET listener == CHOOSE o \in existingListeners : TRUE
         IN  Replay(func, existingListeners \ {listener}, Invoke(func, listener, st))

\* Modding.onListenerAdded(func, id), lines 176-195
OnListenerAddedTo(func, id, st) ==
    IF id # NoEvent
    THEN LET created == IF st.listenerAddedEvents[id].has THEN st
                        ELSE [st EXCEPT !.listenerAddedEvents[id] = Present(<<>>)]
             existingListeners ==
                IF st.lifecycleListeners[id].has THEN st.lifecycleListeners[id].v
                ELSE IF st.decoratorListeners[id].has THEN st.decoratorListeners[id].v
                ELSE {}
             replayed == Replay(func, existingListeners, created)
         IN  [replayed EXCEPT !.listenerAddedEvents[id] = Present(Append(@.v, func))]
    ELSE LET replayed == Replay(func, DOMAIN st.listeners, st)
         IN  [replayed EXCEPT !.listenerAdded = Append(@, func)]

\* Modding.onListenerRemoved(func, id), lines 228-237
OnListenerRemovedTo(func, id, st) ==
    IF id # NoEvent
    THEN LET created == IF st.listenerRemovedEvents[id].has THEN st
                        ELSE [st EXCEPT !.listenerRemovedEvents[id] = Present(<<>>)]
         IN  [created EXCEPT !.listenerRemovedEvents[id] = Present(Append(@.v, func))]
    ELSE [st EXCEPT !.listenerRemoved = Append(@, func)]

\* Modding.addListener(object), called by resolveSingleton (line 390)
AddListener(object) ==
    /\ SetRegistry(AddListenerTo(object, Fresh))
    /\ UNCHANGED subscriptions

\* a createDependency that caches every instance it constructs
FinishConstruction_Cached ==
    /\ callStack # <<>>
    /\ Top.index > Len(ParametersOf(Top.ctor))
    /\ nextObject[Top.ctor] <= MaxObjects
    /\ LET ctor == Top.ctor
           dependency == Instance(ctor, nextObject[ctor])
       IN  /\ nextObject' = [nextObject EXCEPT ![ctor] = @ + 1]
           /\ resolvedSingletons' = [resolvedSingletons EXCEPT ![ctor] = dependency]
           /\ loadingList' = IF Top.singleton THEN Pop(loadingList) ELSE loadingList
           /\ AddListener(dependency)
           /\ ctorRuns' = [ctorRuns EXCEPT ![ctor] = @ + 1]
           /\ returned' = [returned EXCEPT ![ctor] = @ \cup {dependency}]
           /\ Deliver(Pop(callStack), call, dependency)
    /\ IgniteFollows
    /\ UNCHANGED <<spawnVars, reflectVars, dependencyResolution>>

\* createDeferredDependency line 452 and resolveSingleton lines 386-390: the
\* constructor runs with the resolved arguments, the instance is cached, the
\* loading list popped and the instance registered as a listener
FinishConstruction ==
    /\ callStack # <<>>
    /\ Top.index > Len(ParametersOf(Top.ctor))
    /\ nextObject[Top.ctor] <= MaxObjects
    /\ LET ctor == Top.ctor
           dependency == Instance(ctor, nextObject[ctor])
       IN  /\ nextObject' = [nextObject EXCEPT ![ctor] = @ + 1]
           /\ IF Top.singleton
              THEN /\ resolvedSingletons' = [resolvedSingletons EXCEPT ![ctor] = dependency]
                   /\ loadingList' = Pop(loadingList)
                   /\ AddListener(dependency)
                   /\ ctorRuns' = [ctorRuns EXCEPT ![ctor] = @ + 1]
                   /\ returned' = [returned EXCEPT ![ctor] = @ \cup {dependency}]
              ELSE /\ UNCHANGED <<resolvedSingletons, loadingList, listeners, tick, ctorRuns,
                                  returned, registryVars>>
                   /\ QuietRegistry
           /\ Deliver(Pop(callStack), call, dependency)
    /\ IgniteFollows
    /\ UNCHANGED <<spawnVars, reflectVars, dependencyResolution>>

\* the body of the constructor throws (line 452): the error leaves through
\* resolveSingleton before line 386
ConstructorThrows ==
    /\ callStack # <<>>
    /\ Top.index > Len(ParametersOf(Top.ctor))
    /\ Raise(call, ConstructorError(Top.ctor))
    /\ IgniteFollows
    /\ UNCHANGED <<spawnVars, reflectVars, dependencyResolution, resolvedSingletons, loadingList,
                   listeners, tick, nextObject, ctorRuns, returned, registryVars>>
    /\ QuietRegistry

\* the number of entries of dependencyResolution
Overrides == Cardinality({id \in AllIds : dependencyResolution[id].has})

\* the identifiers used as constructor dependencies and as override targets
ParamIds == {IdA, IdPB, IdBadPrim, IdMissing}
OverrideIds == {IdPB, IdMissing}
\* the identifiers asked for through the Dependency<T>() macro
DependencyIds == {IdStr, IdNum, IdNaN, IdIface}

\* edges, options, load orders and optional markers set up
Setup ==
    LET defined(o, key) == IF metadata[o][key].has THEN 1 ELSE 0
        edges(o) == IF metadata[o]["flamework:parameters"].has
                    THEN Len(metadata[o]["flamework:parameters"].v) ELSE 0
        items(o) == edges(o) + defined(o, "flamework:dependency_resolution")
                    + defined(o, "flamework:loadOrder") + defined(o, "flamework:optional")
    IN  items("A") + items("B") + items("C")

\* Modding.registerDependency(dependency, id), lines 406-414
RegisterDependency(id, isFunction) ==
    /\ callStack = <<>>
    /\ ~IgniteSync
    /\ dependencyResolution[id].has \/ Overrides < MaxOverrides
    /\ dependencyResolution' = [dependencyResolution EXCEPT ![id] =
            IF isFunction THEN FactoryResolution ELSE ConstantResolution]
    /\ UNCHANGED <<spawnVars, reflectVars, resolvedSingletons, loadingList, listeners,
                   callStack, call, nextObject, ctorRuns, returned, igniteVars,
                   registryVars, threadVars>>
    /\ Quiet

\* ------------------------------------------------------------------------
\* flamework.ts: reuseThread, lines 138-178.  A coroutine made by
\* task.spawn(reusableThread, func) is idle (suspended at line 154, waiting
\* for the next func), suspended (inside func), or gone (func threw, or the
\* loop was left at line 150).  th is the record of inactiveThread and the
\* coroutines.
\* ------------------------------------------------------------------------
NoThread == 0
\* a coroutine that does not exist (any more), and the handler a suspended
\* one is in
NoJob == NoEvent
NotRunning == [status |-> "none", job |-> NoJob]

\* what a spawned handler can do before control is back with the spawner
SpawnOutcomes == {"return", "throw", "yield"}

Threads == [inactiveThread |-> inactiveThread, threads |-> threads]

SetThreads(th) ==
    /\ inactiveThread' = th.inactiveThread
    /\ threads' = th.threads

Free(th) == {thread \in 1..MaxThreads : /\ th.threads[thread].status = "none"
                                        /\ thread # th.inactiveThread}
CanSpawn(th) == th.inactiveThread # NoThread \/ Free(th) # {}
FreshThread(th) == CHOOSE thread \in Free(th) : \A other \in Free(th) : thread <= other

\* a loop without the test of lines 148-150: the coroutine becomes the
\* inactive one also when there is one already
Finish_Overwrites(thread, th) ==
    [th EXCEPT !.inactiveThread = thread,
               !.threads[thread] = [status |-> "idle", job |-> NoJob]]

\* lines 148-154: func returned
Finish(thread, th) ==
    IF th.inactiveThread # NoThread
    THEN [th EXCEPT !.threads[thread] = NotRunning]
    ELSE [th EXCEPT !.inactiveThread = thread,
                    !.threads[thread] = [status |-> "idle", job |-> NoJob]]

\* an error ends the coroutine; task.spawn reports it
Fail(thread, th) == [th EXCEPT !.threads[thread] = NotRunning]

\* lines 142-154: one turn of the loop of reusableThread in thread
Run(thread, job, outcome, th) ==
    LET taken == IF th.inactiveThread = thread THEN [th EXCEPT !.inactiveThread = NoThread]
                 ELSE th
    IN  CASE outcome = "return" -> Finish(thread, taken)
          [] outcome = "throw" -> Fail(thread, taken)
          [] outcome = "yield" ->
                [taken EXCEPT !.threads[thread] = [status |-> "suspended", job |-> job]]

\* reuseThread(func), lines 172-178
ReuseThread(job, outcome, th) ==
    IF th.inactiveThread # NoThread
    THEN Run(th.inactiveThread, job, outcome, th)
    ELSE Run(FreshThread(th), job, outcome, th)

\* ------------------------------------------------------------------------
\* The container on its own: the registrations are chosen, then singletons
\* and dependencies are resolved and overrides registered in any order
\* ------------------------------------------------------------------------
OptionChoices ==
    {[hasHandle |-> TRUE, answers |-> {IdPB, IdMissing}, hasHandlePrimitive |-> FALSE],
     [hasHandle |-> FALSE, answers |-> {}, hasHandlePrimitive |-> TRUE]}

NoMetadata == [key \in Keys |-> Absent]

\* the program defines no metadata for properties, and is built with the
\* ignite() of part_012, which has no configuration and no external classes
NoProperties == [o \in Objects |-> [property \in Properties |-> NoMetadata]]
NoConfig == [present |-> FALSE, loadOverride |-> [has |-> FALSE, v |-> {}]]
InitSetup ==
    /\ propertyMetadata = NoProperties
    /\ flameworkConfig = NoConfig
    /\ externalClasses = {}

InitContainer ==
    /\ dependencyResolution = [id \in AllIds |-> NoResolution]
    /\ resolvedSingletons = [ctor \in Constructors |-> Undefined]
    /\ loadingList = <<>>
    /\ listeners = NoListeners
    /\ lifecycleListeners = NoSets
    /\ decoratorListeners = NoSets
    /\ listenerAdded = <<>>
    /\ listenerRemoved = <<>>
    /\ listenerAddedEvents = NoSignals
    /\ listenerRemovedEvents = NoSignals
    /\ subscriptions = <<>>
    /\ received = <<>>
    /\ fired = <<>>
    /\ callStack = <<>>
    /\ call = NoCall
    /\ nextObject = [ctor \in Constructors |-> 1]
    /\ ctorRuns = [ctor \in Constructors |-> 0]
    /\ returned = [ctor \in Constructors |-> {}]

\* nothing was dispatched
InitSpawn ==
    /\ spawned = {}
    /\ reuseLog = <<>>
    /\ spawnLog = <<>>
    /\ yielded = {}

InitIgnite ==
    /\ InitSpawn
    /\ hasFlameworkIgnited = FALSE
    /\ ignitePc = "idle"
    /\ rootsLeft = {}
    /\ dependencies = <<>>
    /\ init = <<>>
    /\ start = <<>>
    /\ tick = {}
    /\ physics = {}
    /\ render = {}
    /\ inactiveThread = NoThread
    /\ threads = [thread \in 1..MaxThreads |-> NotRunning]
    /\ frame = NoFrame
    /\ initIndex = 1
    /\ startIndex = 1
    /\ connected = FALSE
    /\ igniteError = NoError
    /\ wired = FALSE
    /\ igniteCalls = 0
    /\ ignitions = 0
    /\ misuses = 0
    /\ log = <<>>

\* A is registered under its name, B under an identifier that carries the
\* primitive prefix, the interface object under "I"; C extends A and is not
\* registered
ResolveRegistry ==
    [id \in AllIds |-> CASE id = IdA -> "A" [] id = IdPB -> "B"
                         [] id = IdIface -> Interface
                         [] id = IdArtificial -> ArtificialDependency
                         [] OTHER -> NoObject]

IdentifierIn(registry, o) ==
    IF \E id \in AllIds : registry[id] = o
    THEN CHOOSE id \in AllIds : registry[id] = o
    ELSE NoId

MetadataChoice(registry, params, options) ==
    [o \in Objects |->
        [key \in Keys |->
            CASE key = "identifier" /\ IdentifierIn(registry, o) # NoId ->
                    Present(IdentifierIn(registry, o))
              [] key = "flamework:parameters" /\ o \in DOMAIN params -> Present(params[o])
              [] key = "flamework:dependency_resolution" /\ o \in DOMAIN options ->
                    Present(options[o])
              [] OTHER -> Absent]]

InitResolve ==
    /\ idToObj = ResolveRegistry
    /\ objToId = [o \in Objects |-> IdentifierIn(ResolveRegistry, o)]
    /\ \E lenA \in 0..MaxSetup : \E lenB \in 0..(MaxSetup - lenA) :
       \E paramsA \in [1..lenA -> ParamIds], paramsB \in [1..lenB -> ParamIds] :
       \E withOptions \in SUBSET {"A"} :
       \E options \in [withOptions -> OptionChoices] :
            metadata = MetadataChoice(ResolveRegistry,
                                      [o \in {"A", "B"} |-> IF o = "A" THEN paramsA ELSE paramsB],
                                      options)
    /\ InitSetup
    /\ InitContainer
    /\ InitIgnite
    /\ handlers = {"return"}
    /\ isClient = FALSE
    /\ Setup <= MaxSetup

NextResolve ==
    \/ \E ctor \in {"A", "B"} : ResolveSingleton(ctor)
    \/ \E id \in DependencyIds : Dependency(id)
    \/ ResolveNextDependency
    \/ FinishConstruction
    \/ ConstructorThrows
    \/ \E id \in OverrideIds, isFunction \in BOOLEAN : RegisterDependency(id, isFunction)

SpecResolve == InitResolve /\ [][NextResolve]_vars

\* ------------------------------------------------------------------------
\* Properties of the container (SpecResolve)
\* ------------------------------------------------------------------------

\* the innermost construction is about to resolve its next dependency
AtDependency == callStack # <<>> /\ Top.index <= Len(ParametersOf(Top.ctor))
NextId == ParametersOf(Top.ctor)[Top.index]

\* the step hands v to the innermost construction as its next argument
Delivered(v) ==
    callStack' = [callStack EXCEPT ![Len(callStack)] =
                    [@ EXCEPT !.args = Append(@, v), !.index = @ + 1]]

\* the step starts the construction of ctor
Entered(ctor) ==
    /\ Len(callStack') = Len(callStack) + 1
    /\ callStack'[Len(callStack')].ctor = ctor
    /\ callStack'[Len(callStack')].singleton

\* the step ends the outermost call with an error
Failed == callStack' = <<>> /\ call'.status = "threw"

\* C1: every resolveSingleton(T) that returns, returns one and the same
\* instance of T; the constructor of T runs at most once on behalf of
\* resolveSingleton; a call answered at the outermost level returns an
\* instance of the type asked for; an entry of the singleton cache, once set,
\* is never changed or removed.
C1_FirstInstance ==
    /\ [](\A ctor \in Constructors :
            /\ Cardinality(returned[ctor]) <= 1
            /\ ctorRuns[ctor] <= 1
            /\ resolvedSingletons[ctor] # Undefined => returned[ctor] = {resolvedSingletons[ctor]})
    /\ [](call.op = "resolveSingleton" /\ call.status = "returned"
            => returned[call.ctor] = {call.val} /\ call.val.t = call.ctor)
    /\ [][\A ctor \in Constructors :
            resolvedSingletons[ctor] # Undefined
                => resolvedSingletons'[ctor] = resolvedSingletons[ctor]]_vars

\* a resolveSingleton call was answered by the cache, after the constructor ran
C1_Witness ==
    /\ call.op = "resolveSingleton" /\ call.status = "returned" /\ call.cached
    /\ ctorRuns[call.ctor] = 1
    /\ call.val = resolvedSingletons[call.ctor]

\* the next dependency of the innermost construction is a registered type
\* that is neither overridden nor answered by the callback, and it is on the
\* loading list
ReEntered ==
    /\ AtDependency
    /\ ~(Top.options.hasHandle /\ NextId \in Top.options.answers)
    /\ ~dependencyResolution[NextId].has
    /\ idToObj[NextId] \in Constructors
    /\ Includes(loadingList, idToObj[NextId])

\* C2: a resolution that reaches a type which is on the loading list fails
\* with CircularDependency; the chain of the error is the loading list in
\* push order followed by the type reached again; no type of the cycle is in
\* the singleton cache, then or later in the failed state, and no type on the
\* loading list is ever cached.
C2_Circular ==
    /\ [][ReEntered =>
            /\ Failed
            /\ call'.err.kind = "CircularDependency"
            /\ call'.err.chain = Append(loadingList, idToObj[NextId])
            /\ resolvedSingletons' = resolvedSingletons
            /\ \A T \in CycleOf(loadingList, idToObj[NextId]) :
                    resolvedSingletons'[T] = Undefined]_vars
    /\ [](\A i \in 1..Len(loadingList) : resolvedSingletons[loadingList[i]] = Undefined)
    /\ [](call.status = "threw" /\ call.err.kind = "CircularDependency"
            => /\ Len(call.err.chain) >= 2
               /\ call.err.chain[Len(call.err.chain)] = call.err.ctor
               /\ \E i \in 1..(Len(call.err.chain) - 1) : call.err.chain[i] = call.err.ctor
               /\ \A i \in 1..Len(call.err.chain) :
                    resolvedSingletons[call.err.chain[i]] = Undefined
                    \/ \A j \in 1..i : call.err.chain[j] # call.err.ctor)

\* a resolution failed on a cycle through two types
C2_Witness ==
    /\ call.status = "threw" /\ call.err.kind = "CircularDependency"
    /\ Len(call.err.chain) = 3
    /\ call.err.chain[1] = call.err.chain[3]
    /\ call.err.chain[1] # call.err.chain[2]

\* no rule of resolveDependency applies to the identifier
Unresolvable(id, options) ==
    /\ ~(options.hasHandle /\ id \in options.answers)
    /\ ~dependencyResolution[id].has
    /\ idToObj[id] \notin Constructors
    /\ \/ StringSub(id, 1, 2) # <<"$", "p">>
       \/ /\ StringSub(id, 1, 3) \notin {<<"$", "p", "s">>, <<"$", "p", "n">>}
          /\ ~options.hasHandlePrimitive

\* C3: resolving an identifier for which the callback gives no result, no
\* override is registered, no constructor is registered and which encodes no
\* known primitive (no primitive prefix, or an unknown kind without a
\* primitive handler) fails with an error that names the identifier and the
\* type under construction, and adds nothing to the singleton cache.
C3_Unresolved ==
    /\ [][AtDependency /\ Unresolvable(NextId, Top.options) =>
            /\ Failed
            /\ call'.err.kind = IF StringSub(NextId, 1, 2) = <<"$", "p">>
                                THEN "UnexpectedPrimitive" ELSE "NoConstructor"
            /\ call'.err.id = NextId
            /\ call'.err.ctor = Top.ctor
            /\ resolvedSingletons' = resolvedSingletons
            /\ listeners' = listeners]_vars
    /\ [](call.op = "resolveDependency" /\ call.status # "running"
            /\ Unresolvable(call.id, NoOptions)
            => /\ call.status = "threw"
               /\ call.err.kind \in {"UnexpectedPrimitive", "NoConstructor"}
               /\ call.err.id = call.id
               /\ call.err.ctor = ArtificialDependency)
    /\ [](call.status = "threw" /\ call.err.kind \in {"UnexpectedPrimitive", "NoConstructor"}
            => resolvedSingletons[call.err.ctor] = Undefined)

\* the construction of a type failed on an identifier nothing resolves, after
\* another dependency of the same resolution had been constructed
C3_Witness ==
    /\ call.status = "threw" /\ call.err.kind = "NoConstructor"
    /\ call.err.id = IdMissing
    /\ call.err.ctor \in Types
    /\ \E ctor \in Types : resolvedSingletons[ctor] # Undefined

\* the outcomes of the four rules, as a step of the innermost construction
ByCallback == Delivered(HandledObject(NextId, Top.index - 1))
ByOverride ==
    \/ Delivered(LiteralObject)
    \/ Delivered(FactoryObject(Top.ctor, NextId))
ByPrimitive ==
    \/ \E v \in {StringValue(StringFrom(NextId, 5)), NumberValue(0),
                 PrimitiveObject(NextId, Top.index - 1)} : Delivered(v)
    \/ \E n \in 0..99 : Delivered(NumberValue(n))
    \/ Failed /\ call'.err.kind = "UnexpectedPrimitive"
ByRegisteredType ==
    \/ /\ resolvedSingletons[idToObj[NextId]] # Undefined
       /\ Delivered(resolvedSingletons[idToObj[NextId]])
    \/ /\ resolvedSingletons[idToObj[NextId]] = Undefined
       /\ Entered(idToObj[NextId])
    \/ /\ resolvedSingletons[idToObj[NextId]] = Undefined
       /\ Failed /\ call'.err.kind = "CircularDependency"

CallbackAnswers == Top.options.hasHandle /\ NextId \in Top.options.answers
HasOverride == dependencyResolution[NextId].has
HasPrimitivePrefix == StringSub(NextId, 1, 2) = <<"$", "p">>
HasRegisteredType == idToObj[NextId] \in Constructors

\* C4 as stated: the first rule that applies decides, in the order callback,
\* override, primitive, registered type; an identifier with the primitive
\* prefix and a registered type resolves to the primitive.
C4_PrimitiveBeforeType ==
    [][AtDependency =>
            IF CallbackAnswers THEN ByCallback
            ELSE IF HasOverride THEN ByOverride
            ELSE IF HasPrimitivePrefix THEN ByPrimitive
            ELSE IF HasRegisteredType THEN ByRegisteredType
            ELSE Failed /\ call'.err.kind = "NoConstructor"]_vars

\* C4 as the code orders the rules: the first rule that applies decides, in
\* the order callback,
\* override, registered type (resolved as a singleton), primitive; an
\* identifier with the primitive prefix and a registered type resolves to the
\* singleton of that type, and an identifier with an override and a
\* registered type resolves to the override.
C4_Precedence ==
    [][AtDependency =>
            IF CallbackAnswers THEN ByCallback
            ELSE IF HasOverride THEN ByOverride
            ELSE IF HasRegisteredType THEN ByRegisteredType
            ELSE IF HasPrimitivePrefix THEN ByPrimitive
            ELSE Failed /\ call'.err.kind = "NoConstructor"]_vars

\* a construction received the singleton of the type registered under an
\* identifier that carries the primitive prefix
C4_Witness ==
    /\ callStack # <<>>
    /\ \E i \in 1..Len(Top.args) :
        /\ ParametersOf(Top.ctor)[i] = IdPB
        /\ Top.args[i] = resolvedSingletons["B"]
        /\ Top.args[i] # Undefined

\* C5 as stated: once a plain value is registered as the override of an
\* identifier, every resolution of an edge with that identifier returns the
\* value, constructs nothing and adds nothing to the singleton cache or the
\* listener registry, whether or not a type is registered under it.
C5_OverrideAlways ==
    [][AtDependency /\ dependencyResolution[NextId] = ConstantResolution =>
            /\ Delivered(LiteralObject)
            /\ nextObject' = nextObject
            /\ resolvedSingletons' = resolvedSingletons
            /\ listeners' = listeners]_vars

\* C5, amended: while the override registered for an identifier is a plain
\* value, every resolution of an edge with that identifier for which the
\* callback of the resolution gives no result returns the value itself,
\* constructs nothing and adds nothing to the singleton cache or the listener
\* registry, whether or not a type is registered under the identifier.
C5_Override ==
    [][AtDependency /\ dependencyResolution[NextId] = ConstantResolution
                    /\ ~CallbackAnswers =>
            /\ Delivered(LiteralObject)
            /\ loadingList' = loadingList
            /\ nextObject' = nextObject
            /\ ctorRuns' = ctorRuns
            /\ resolvedSingletons' = resolvedSingletons
            /\ listeners' = listeners]_vars

\* a construction received the overriding value for an identifier under
\* which a type is registered, and that type was not constructed
C5_Witness ==
    /\ callStack # <<>>
    /\ dependencyResolution[IdPB] = ConstantResolution
    /\ \E i \in 1..Len(Top.args) :
        /\ ParametersOf(Top.ctor)[i] = IdPB
        /\ Top.args[i] = LiteralObject
    /\ idToObj[IdPB] = "B"
    /\ resolvedSingletons["B"] = Undefined

\* ------------------------------------------------------------------------
\* flamework.ts: ignite()
\* ------------------------------------------------------------------------
\* getIdentifier(obj), lines 106-108
GetIdentifier(obj) ==
    IF GetMetadata(obj, "identifier").has THEN GetMetadata(obj, "identifier").v
    ELSE UnidentifiedFlameworkListener

\* sortedDependencies.get(id) of an identifier the sort never reached
NoIndex == -1

RECURSIVE Visitor(_, _)
RECURSIVE VisitAll(_, _, _)
\* a visitor that gives every node the index 0
Visitor_KeepsSize(node, st) ==
    IF node \in st.visited THEN st
    ELSE LET seen == [st EXCEPT !.visited = @ \cup {node}]
             object == idToObj[node]
         IN  IF object = NoObject THEN seen
             ELSE LET below == VisitAll(
                                IF GetMetadata(Class(object), "flamework:parameters").has
                                THEN GetMetadata(Class(object), "flamework:parameters").v
                                ELSE <<>>, 1, seen)
                  IN  [below EXCEPT !.sorted = [@ EXCEPT ![node] = below.currentSize]]

\* the visitor of topologicalSort, lines 116-129; st is the record of
\* currentSize, sorted and visited
Visitor(node, st) ==
    IF node \in st.visited THEN st
    ELSE LET seen == [st EXCEPT !.visited = @ \cup {node}]
             object == idToObj[node]
         IN  IF object = NoObject THEN seen
             ELSE LET below == VisitAll(
                                IF GetMetadata(Class(object), "flamework:parameters").has
                                THEN GetMetadata(Class(object), "flamework:parameters").v
                                ELSE <<>>, 1, seen)
                  IN  [below EXCEPT !.sorted = [@ EXCEPT ![node] = below.currentSize],
                                    !.currentSize = @ + 1]

\* the loops of lines 124-126 and 131-133
VisitAll(objects, i, st) ==
    IF i > Len(objects) THEN st
    ELSE VisitAll(objects, i + 1, Visitor(objects[i], st))

\* topologicalSort(objects), lines 111-136
TopologicalSort(objects) ==
    VisitAll(objects, 1, [currentSize |-> 0,
                          sorted |-> [id \in AllIds |-> NoIndex],
                          visited |-> {}]).sorted

\* Reflect.getMetadata(ctor, "flamework:loadOrder") ?? 0
LoadOrderOf_Zero(ctor) ==
    IF GetMetadata(Class(ctor), "flamework:loadOrder").has
    THEN GetMetadata(Class(ctor), "flamework:loadOrder").v.n
    ELSE 0

\* Reflect.getMetadata(ctor, "flamework:loadOrder") ?? 1, line 213
LoadOrderOf(ctor) ==
    IF GetMetadata(Class(ctor), "flamework:loadOrder").has
    THEN GetMetadata(Class(ctor), "flamework:loadOrder").v.n
    ELSE 1

\* the sequences that hold every element of S once
Orders(S) ==
    {f \in [1..Cardinality(S) -> S] : \A x \in S : \E i \in 1..Cardinality(S) : f[i] = x}

\* the comparator that orders by the topological index alone
Before_IndexOnly(a, b, sortedDependencies) ==
    sortedDependencies[GetIdentifier(a.obj)] < sortedDependencies[GetIdentifier(b.obj)]

\* the comparator that ignores the topological index
Before_OrderOnly(a, b, sortedDependencies) ==
    a.loadOrder < b.loadOrder

\* the comparator of dependencies.sort, lines 225-233
Before(a, b, sortedDependencies) ==
    IF a.loadOrder # b.loadOrder THEN a.loadOrder < b.loadOrder
    ELSE sortedDependencies[GetIdentifier(a.obj)] < sortedDependencies[GetIdentifier(b.obj)]

\* the comparator compares nil with a number: two entries of equal load
\* order of which one has no topological index
Incomparable(deps, sortedDependencies) ==
    \E i, j \in 1..Len(deps) :
        /\ i # j
        /\ deps[i].loadOrder = deps[j].loadOrder
        /\ sortedDependencies[GetIdentifier(deps[i].obj)] = NoIndex

\* the results table.sort can leave for the comparator
Sorted(deps, sortedDependencies) ==
    {result \in Orders({deps[i] : i \in 1..Len(deps)}) :
        \A i, j \in 1..Len(result) :
            i < j => ~Before(result[j], result[i], sortedDependencies)}

\* a filter that leaves out the instances of optional classes
RECURSIVE Filter_NotOptional(_, _)
Filter_NotOptional(list, event) ==
    IF list = <<>> THEN <<>>
    ELSE (IF /\ Implements(list[1].obj, event)
             /\ ~GetMetadata(list[1].obj, "flamework:optional").has
          THEN <<list[1].obj>> ELSE <<>>)
         \o Filter_NotOptional(Tail(list), event)

\* the instances of list that implement event, in the order of list
RECURSIVE Filter(_, _)
Filter(list, event) ==
    IF list = <<>> THEN <<>>
    ELSE (IF Implements(list[1].obj, event) THEN <<list[1].obj>> ELSE <<>>)
         \o Filter(Tail(list), event)

SortError == [kind |-> "CompareNil", chain |-> <<>>, id |-> NoId, ctor |-> NoObject]
\* the error a handler throws on its own
HandlerError == [kind |-> "HandlerError", chain |-> <<>>, id |-> NoId, ctor |-> NoObject]
\* `OnInit failed for dependency '${identifier}'. ${tostring(value)}`
OnInitFailed(identifier) ==
    [kind |-> "OnInitFailed", chain |-> <<>>, id |-> identifier, ctor |-> NoObject]

Event(ev, obj) == [ev |-> ev, obj |-> obj]

\* a metadata value in a condition: undefined and false fail it
Truthy(m) == m.has /\ m.v # BooleanValue(FALSE)

\* ignite() that refuses a call only once an ignition has completed
Ignite_AfterCompletion ==
    /\ callStack = <<>>
    /\ ~IgniteSync
    /\ igniteCalls < MaxIgnite
    /\ igniteCalls' = igniteCalls + 1
    /\ IF ignitePc = "done"
       THEN /\ misuses' = misuses + 1
            /\ UNCHANGED <<hasFlameworkIgnited, ignitePc, rootsLeft, ignitions>>
       ELSE /\ hasFlameworkIgnited' = TRUE
            /\ ignitePc' = "roots"
            /\ ignitions' = ignitions + 1
            /\ rootsLeft' = {ctor \in {idToObj[id] : id \in AllIds} \cap Constructors :
                                /\ Truthy(GetMetadata(Class(ctor), "flamework:singleton"))
                                /\ ~Truthy(GetMetadata(Class(ctor), "flamework:optional"))}
            /\ UNCHANGED misuses
    /\ UNCHANGED <<spawnVars, reflectVars, containerVars, dependencies, init, start, tick, initIndex,
                   startIndex, connected, igniteError, wired, log, registryVars,
                   threadVars>>
    /\ Quiet

\* ignite(), lines 199-209: the guard, the flag, and the constructors the
\* loop over Reflect.idToObj resolves
Ignite ==
    /\ callStack = <<>>
    /\ ~IgniteSync
    /\ igniteCalls < MaxIgnite
    /\ igniteCalls' = igniteCalls + 1
    /\ IF hasFlameworkIgnited
       THEN /\ misuses' = misuses + 1
            /\ UNCHANGED <<hasFlameworkIgnited, ignitePc, rootsLeft, ignitions>>
       ELSE /\ hasFlameworkIgnited' = TRUE
            /\ ignitePc' = "roots"
            /\ ignitions' = ignitions + 1
            /\ rootsLeft' = {ctor \in {idToObj[id] : id \in AllIds} \cap Constructors :
                                /\ Truthy(GetMetadata(Class(ctor), "flamework:singleton"))
                                /\ ~Truthy(GetMetadata(Class(ctor), "flamework:optional"))}
            /\ UNCHANGED misuses
    /\ UNCHANGED <<spawnVars, reflectVars, containerVars, dependencies, init, start, tick, initIndex,
                   startIndex, connected, igniteError, wired, log, registryVars,
                   threadVars>>
    /\ Quiet

\* line 207: Modding.resolveSingleton(ctor) for the next constructor the
\* loop reaches; the iteration order of the map is not defined
IgniteResolveSingleton ==
    /\ ignitePc = "roots"
    /\ callStack = <<>>
    /\ \E ctor \in rootsLeft :
        /\ rootsLeft' = rootsLeft \ {ctor}
        /\ Proceed(EnterSingleton(ctor), <<>>, NewCall("ignite", ctor, NoId))
    /\ ignitePc' = IF call'.status = "threw" THEN "failed" ELSE ignitePc
    /\ igniteError' = IF call'.status = "threw" THEN call'.err ELSE igniteError
    /\ UNCHANGED <<spawnVars, reflectVars, dependencyResolution, hasFlameworkIgnited, dependencies,
                   init, start, initIndex, startIndex, connected, wired, igniteCalls,
                   ignitions, misuses, log, threadVars>>
    /\ QuietFrame

\* an ignite() that subscribes to the removals only
Wire_RemovedOnly(st) ==
    LET tickRemoved == OnListenerRemovedTo(TickDelete, OnTick, st)
        physicsRemoved == OnListenerRemovedTo(PhysicsDelete, OnPhysics, tickRemoved)
    IN  OnListenerRemovedTo(RenderDelete, OnRender, physicsRemoved)

\* lines 235-241: the six subscriptions of ignite()
Wire(st) ==
    LET tickAdded == OnListenerAddedTo(TickSet, OnTick, st)
        physicsAdded == OnListenerAddedTo(PhysicsSet, OnPhysics, tickAdded)
        renderAdded == OnListenerAddedTo(RenderSet, OnRender, physicsAdded)
        tickRemoved == OnListenerRemovedTo(TickDelete, OnTick, renderAdded)
        physicsRemoved == OnListenerRemovedTo(PhysicsDelete, OnPhysics, tickRemoved)
    IN  OnListenerRemovedTo(RenderDelete, OnRender, physicsRemoved)

\* lines 211-246: the cached singletons are collected with their load
\* orders, sorted, the frame maps subscribed (onListenerAdded reports the
\* listeners that exist) and the init and start lists built
IgniteSort ==
    /\ ignitePc = "roots"
    /\ callStack = <<>>
    /\ rootsLeft = {}
    /\ \E order \in Orders({ctor \in Constructors : resolvedSingletons[ctor] # Undefined}) :
        LET collected == [i \in 1..Len(order) |->
                            [obj |-> resolvedSingletons[order[i]],
                             loadOrder |-> LoadOrderOf(order[i])]]
            sortedDependencies ==
                TopologicalSort([i \in 1..Len(order) |-> GetIdentifier(collected[i].obj)])
        IN  IF Incomparable(collected, sortedDependencies)
            THEN /\ ignitePc' = "failed"
                 /\ igniteError' = SortError
                 /\ UNCHANGED <<dependencies, init, start, tick, wired, listeners,
                                registryVars>>
                 /\ QuietRegistry
            ELSE \E result \in Sorted(collected, sortedDependencies) :
                 /\ dependencies' = result
                 /\ wired' = TRUE
                 /\ SetRegistry(Wire(Fresh))
                 /\ init' = Filter(result, OnInit)
                 /\ start' = Filter(result, OnStart)
                 /\ ignitePc' = "init"
                 /\ UNCHANGED <<igniteError, subscriptions>>
    /\ UNCHANGED <<spawnVars, reflectVars, dependencyResolution, resolvedSingletons, loadingList,
                   callStack, call, nextObject, ctorRuns, returned,
                   hasFlameworkIgnited, rootsLeft, initIndex,
                   startIndex, connected, igniteCalls, ignitions, misuses, log,
                   threadVars>>
    /\ QuietFrame

\* what a call of a lifecycle handler can do before control is back
HandlerOutcomes == {"return", "throw", "yield", "promise"}

\* an init loop that spawns each handler and goes on when it suspends
IgniteInit_Spawned ==
    /\ ignitePc = "init"
    /\ initIndex <= Len(init)
    /\ \E outcome \in HandlerOutcomes :
        /\ log' = Append(log, Event("OnInit", init[initIndex]))
                  \o (IF outcome = "return"
                      THEN <<Event("OnInit done", init[initIndex])>> ELSE <<>>)
        /\ ignitePc' = IF outcome = "throw" THEN "failed" ELSE "init"
        /\ igniteError' = IF outcome = "throw" THEN HandlerError ELSE igniteError
        /\ initIndex' = IF outcome = "throw" THEN initIndex ELSE initIndex + 1
    /\ UNCHANGED <<spawnVars, reflectVars, containerVars, hasFlameworkIgnited, rootsLeft, dependencies,
                   init, start, tick, startIndex, connected, wired, igniteCalls, ignitions,
                   misuses, registryVars, threadVars>>
    /\ Quiet

\* lines 248-252: the next init handler is called in the thread of ignite();
\* it returns, throws, suspends, or returns a promise that is awaited
IgniteInit ==
    /\ ignitePc = "init"
    /\ initIndex <= Len(init)
    /\ \E outcome \in HandlerOutcomes :
        /\ log' = Append(log, Event("OnInit", init[initIndex]))
                  \o (IF outcome = "return"
                      THEN <<Event("OnInit done", init[initIndex])>> ELSE <<>>)
        /\ ignitePc' = CASE outcome = "return" -> "init"
                         [] outcome = "throw" -> "failed"
                         [] outcome = "yield" -> "initYield"
                         [] outcome = "promise" -> "initAwait"
        /\ igniteError' = IF outcome = "throw" THEN HandlerError ELSE igniteError
        /\ initIndex' = IF outcome = "return" THEN initIndex + 1 ELSE initIndex
    /\ UNCHANGED <<spawnVars, reflectVars, containerVars, hasFlameworkIgnited, rootsLeft, dependencies,
                   init, start, tick, startIndex, connected, wired, igniteCalls, ignitions,
                   misuses, registryVars, threadVars>>
    /\ Quiet

\* a suspended init handler is resumed and returns, throws, or returns a
\* promise
IgniteInitResumed ==
    /\ ignitePc = "initYield"
    /\ callStack = <<>>
    /\ \E outcome \in HandlerOutcomes \ {"yield"} :
        /\ log' = IF outcome = "return"
                  THEN Append(log, Event("OnInit done", init[initIndex])) ELSE log
        /\ ignitePc' = CASE outcome = "return" -> "init"
                         [] outcome = "throw" -> "failed"
                         [] outcome = "promise" -> "initAwait"
        /\ igniteError' = IF outcome = "throw" THEN HandlerError ELSE igniteError
        /\ initIndex' = IF outcome = "return" THEN initIndex + 1 ELSE initIndex
    /\ UNCHANGED <<spawnVars, reflectVars, containerVars, hasFlameworkIgnited, rootsLeft, dependencies,
                   init, start, tick, startIndex, connected, wired, igniteCalls, ignitions,
                   misuses, registryVars, threadVars>>
    /\ Quiet

\* lines 253-257: initResult.awaitStatus() returns when the promise has
\* settled; a rejection is thrown with the identifier
IgniteInitSettled ==
    /\ ignitePc = "initAwait"
    /\ callStack = <<>>
    /\ \E rejected \in BOOLEAN :
        /\ log' = IF rejected THEN log
                  ELSE Append(log, Event("OnInit done", init[initIndex]))
        /\ ignitePc' = IF rejected THEN "failed" ELSE "init"
        /\ igniteError' = IF rejected THEN OnInitFailed(GetIdentifier(init[initIndex]))
                          ELSE igniteError
        /\ initIndex' = IF rejected THEN initIndex ELSE initIndex + 1
    /\ UNCHANGED <<spawnVars, reflectVars, containerVars, hasFlameworkIgnited, rootsLeft, dependencies,
                   init, start, tick, startIndex, connected, wired, igniteCalls, ignitions,
                   misuses, registryVars, threadVars>>
    /\ Quiet

\* a start phase that does not wait for the init loop to end
IgniteConnect_BeforeInit ==
    /\ ignitePc = "init"
    /\ connected' = TRUE
    /\ ignitePc' = "start"
    /\ UNCHANGED <<spawnVars, reflectVars, containerVars, hasFlameworkIgnited, rootsLeft, dependencies,
                   init, start, tick, initIndex, startIndex, igniteError, wired, igniteCalls,
                   ignitions, misuses, log, registryVars, threadVars>>
    /\ Quiet

\* lines 263-281: after the last init handler the frame signals are connected
IgniteConnect ==
    /\ ignitePc = "init"
    /\ initIndex > Len(init)
    /\ connected' = TRUE
    /\ ignitePc' = "start"
    /\ UNCHANGED <<spawnVars, reflectVars, containerVars, hasFlameworkIgnited, rootsLeft, dependencies,
                   init, start, tick, initIndex, startIndex, igniteError, wired, igniteCalls,
                   ignitions, misuses, log, registryVars, threadVars>>
    /\ Quiet

\* a start loop that calls each handler in the thread of ignite()
IgniteStart_Inline ==
    /\ ignitePc = "start"
    /\ IF startIndex <= Len(start)
       THEN \E outcome \in handlers :
            /\ log' = Append(log, Event("OnStart", start[startIndex]))
            /\ startIndex' = startIndex + 1
            /\ ignitePc' = CASE outcome = "return" -> "start"
                             [] outcome = "throw" -> "failed"
                             [] outcome = "yield" -> "startYield"
            /\ UNCHANGED <<inactiveThread, threads>>
       ELSE /\ ignitePc' = "done"
            /\ UNCHANGED <<log, startIndex, inactiveThread, threads>>
    /\ UNCHANGED <<spawnVars, reflectVars, containerVars, hasFlameworkIgnited, rootsLeft, dependencies,
                   init, start, tick, initIndex, connected, igniteError, wired, igniteCalls,
                   ignitions, misuses, registryVars, handlers, isClient>>
    /\ Quiet

\* lines 283-286: the next start handler is spawned; what it does, and an
\* error it raises, stays in its own thread
IgniteStart ==
    /\ ignitePc = "start"
    /\ IF startIndex <= Len(start)
       THEN \E outcome \in handlers :
            /\ CanSpawn(Threads)
            /\ SetThreads(ReuseThread(OnStart, outcome, Threads))
            /\ log' = Append(log, Event("OnStart", start[startIndex]))
            /\ startIndex' = startIndex + 1
            /\ UNCHANGED ignitePc
       ELSE /\ ignitePc' = "done"
            /\ UNCHANGED <<log, startIndex, inactiveThread, threads>>
    /\ UNCHANGED <<spawnVars, reflectVars, containerVars, hasFlameworkIgnited, rootsLeft, dependencies,
                   init, start, tick, initIndex, connected, igniteError, wired, igniteCalls,
                   ignitions, misuses, registryVars, handlers, isClient>>
    /\ Quiet

\* a frame callback that calls each handler itself: the loop ends with the
\* first handler that does not return
RECURSIVE Dispatch_Inline(_, _, _, _)
Dispatch_Inline(order, event, outcomes, r) ==
    IF order = <<>> THEN r
    ELSE LET dependency == Head(order)
         IN  IF outcomes[dependency] = "return"
             THEN Dispatch_Inline(Tail(order), event, outcomes,
                                  [r EXCEPT !.begun = @ \cup {dependency}])
             ELSE [r EXCEPT !.begun = @ \cup {dependency}, !.stalled = TRUE]

\* the loop of a frame callback, lines 264-266, 270-272 and 277-279: the
\* handler of every entry is handed to reuseThread, in the order the map
\* hands its entries out
RECURSIVE Dispatch(_, _, _, _)
Dispatch(order, event, outcomes, r) ==
    IF order = <<>> THEN r
    ELSE LET dependency == Head(order)
         IN  IF ~CanSpawn(r.th) THEN [r EXCEPT !.ok = FALSE]
             ELSE Dispatch(Tail(order), event, outcomes,
                           [th |-> ReuseThread(event, outcomes[dependency], r.th),
                            begun |-> r.begun \cup {dependency},
                            stalled |-> IF r.begun = {} THEN outcomes[dependency] # "return"
                                        ELSE r.stalled,
                            ok |-> TRUE])

\* the handlers that are suspended
Suspended == {thread \in 1..MaxThreads : threads[thread].status = "suspended"}

\* frame callbacks that are connected from the start
FrameSignal_Always(event, map) ==
    /\ ~IgniteSync
    /\ callStack = <<>>
    /\ \E order \in Orders(map), outcomes \in [map -> handlers] :
            LET r == Dispatch(order, event, outcomes,
                              [th |-> Threads, begun |-> {}, stalled |-> FALSE, ok |-> TRUE])
            IN  /\ r.ok
                /\ SetThreads(r.th)
                /\ frame' = [phase |-> event, begun |-> r.begun, stalled |-> r.stalled,
                             pending |-> \E thread \in Suspended : threads[thread].job = event]
    /\ UNCHANGED <<spawnVars, reflectVars, containerVars, hasFlameworkIgnited, ignitePc, rootsLeft,
                   dependencies, init, start, tick, initIndex, startIndex, connected,
                   igniteError, wired, igniteCalls, ignitions, misuses, log, registryVars,
                   handlers, isClient>>
    /\ QuietRegistry

\* a frame signal of RunService fires: the callback connected to it, if
\* there is one, dispatches the handlers of the live map
FrameSignal(event, map) ==
    /\ ~IgniteSync
    /\ callStack = <<>>
    /\ IF connected
       THEN \E order \in Orders(map), outcomes \in [map -> handlers] :
            LET r == Dispatch(order, event, outcomes,
                              [th |-> Threads, begun |-> {}, stalled |-> FALSE, ok |-> TRUE])
            IN  /\ r.ok
                /\ SetThreads(r.th)
                /\ frame' = [phase |-> event, begun |-> r.begun, stalled |-> r.stalled,
                             pending |-> \E thread \in Suspended : threads[thread].job = event]
       ELSE /\ UNCHANGED <<inactiveThread, threads>>
            /\ QuietFrame
    /\ UNCHANGED <<spawnVars, reflectVars, containerVars, hasFlameworkIgnited, ignitePc, rootsLeft,
                   dependencies, init, start, tick, initIndex, startIndex, connected,
                   igniteError, wired, igniteCalls, ignitions, misuses, log, registryVars,
                   handlers, isClient>>
    /\ QuietRegistry

\* RunService.Heartbeat fires: the callback connected at line 263 spawns
\* onTick for every entry of the tick map
Heartbeat == FrameSignal(OnTick, tick)

\* RunService.Stepped fires, lines 269-273
Stepped == FrameSignal(OnPhysics, physics)

\* RunService.RenderStepped fires; it is connected on the client only,
\* lines 275-281
RenderStepped ==
    /\ isClient
    /\ FrameSignal(OnRender, render)

\* a handler that suspended is resumed by what it waited for, and returns
\* or throws
ResumeThread(thread) ==
    /\ ~IgniteSync
    /\ callStack = <<>>
    /\ threads[thread].status = "suspended"
    /\ \E outcome \in {"return", "throw"} :
        SetThreads(IF outcome = "return" THEN Finish(thread, Threads)
                   ELSE Fail(thread, Threads))
    /\ UNCHANGED <<spawnVars, reflectVars, containerVars, igniteVars, registryVars, handlers, isClient>>
    /\ Quiet

\* ------------------------------------------------------------------------
\* The orchestrator: three services registered under their own identifiers
\* (C extends A), with dependency edges, load orders and optional markers
\* chosen; C, which ignite() does not resolve when it is optional, is resolved
\* by the program and ignite() is called, in any order
\* ------------------------------------------------------------------------
IgniteRegistry ==
    [id \in AllIds |-> CASE id = IdA -> "A" [] id = IdB -> "B" [] id = IdC -> "C"
                         [] id = IdArtificial -> ArtificialDependency
                         [] OTHER -> NoObject]

IgniteParamIds == {IdA, IdB, IdC}
LoadOrders == {0, 1}

\* what the Service decorator and the class declarations leave: A and B are
\* services with OnInit and OnStart, B has OnTick as well, and C inherits
\* what it does not define
IgniteMetadata(params, loadOrders, optional) ==
    [o \in Objects |->
        [key \in Keys |->
            CASE key = "identifier" /\ IdentifierIn(IgniteRegistry, o) # NoId ->
                    Present(IdentifierIn(IgniteRegistry, o))
              [] key = "flamework:singleton" /\ o \in {"A", "B"} -> Present(BooleanValue(TRUE))
              [] key = "flamework:implements" /\ o = "A" -> Present(<<OnInit, OnStart>>)
              [] key = "flamework:implements" /\ o = "B" -> Present(<<OnInit, OnStart, OnTick>>)
              [] key = "flamework:parameters" /\ o \in DOMAIN params -> Present(params[o])
              [] key = "flamework:loadOrder" /\ o \in DOMAIN loadOrders ->
                    Present(NumberValue(loadOrders[o]))
              [] key = "flamework:optional" /\ o \in optional -> Present(BooleanValue(TRUE))
              [] OTHER -> Absent]]

InitOrchestrator ==
    /\ idToObj = IgniteRegistry
    /\ objToId = [o \in Objects |-> IdentifierIn(IgniteRegistry, o)]
    /\ \E withParams \in SUBSET Types, withOrder \in SUBSET Types, optional \in SUBSET {"C"} :
       \E params \in [withParams -> UNION {[1..n -> IgniteParamIds] : n \in 1..MaxSetup}] :
       \E loadOrders \in [withOrder -> LoadOrders] :
            /\ Cardinality(withParams) + Cardinality(withOrder) + Cardinality(optional)
                    <= MaxSetup
            /\ metadata = IgniteMetadata(params, loadOrders, optional)
    /\ InitSetup
    /\ InitContainer
    /\ InitIgnite
    /\ handlers = {"return"}
    /\ isClient = FALSE
    /\ Setup <= MaxSetup

NextIgnite ==
    \/ \E ctor \in {"C"} : ResolveSingleton(ctor)
    \/ ResolveNextDependency
    \/ FinishConstruction
    \/ ConstructorThrows
    \/ Ignite
    \/ IgniteResolveSingleton
    \/ IgniteSort
    \/ IgniteInit
    \/ IgniteInitResumed
    \/ IgniteInitSettled
    \/ IgniteConnect
    \/ IgniteStart
    \/ Heartbeat

SpecIgnite == InitOrchestrator /\ [][NextIgnite]_vars

\* ------------------------------------------------------------------------
\* Properties of the orchestrator (SpecIgnite)
\* ------------------------------------------------------------------------

\* C6: of all calls of ignite() only the first proceeds: a later call, made
\* while the first is suspended, after it failed or after it returned, fails
\* as a misuse and changes nothing else: it resolves no type and invokes no
\* handler; the ignited flag is never reset.
C6_IgniteOnce ==
    /\ [](ignitions <= 1 /\ (igniteCalls > 0 => hasFlameworkIgnited /\ ignitions = 1))
    /\ [][igniteCalls >= 1 /\ igniteCalls' = igniteCalls + 1 =>
            /\ misuses' = misuses + 1
            /\ UNCHANGED <<spawnVars, reflectVars, containerVars, hasFlameworkIgnited, ignitePc,
                           rootsLeft, dependencies, init, start, tick, initIndex,
                           startIndex, connected, igniteError, wired, ignitions, log>>]_vars
    /\ [][hasFlameworkIgnited => hasFlameworkIgnited']_vars

\* a second call was refused while the first was suspended in an init handler
C6_Witness ==
    /\ misuses = 1 /\ igniteCalls = 2 /\ ignitions = 1
    /\ ignitePc \in {"initYield", "initAwait"}

\* the init events of the log
RECURSIVE InitLog(_)
InitLog(events) ==
    IF events = <<>> THEN <<>>
    ELSE (IF events[1].ev \in {"OnInit", "OnInit done"} THEN <<events[1]>> ELSE <<>>)
         \o InitLog(Tail(events))

\* C7: the init handlers are called one at a time in the final order: the
\* k-th call is that of the k-th instance of the final order that has an
\* init handler, and it is made only after the calls before it completed,
\* whether they returned at once, suspended, or returned a promise.
C7_InitSequential ==
    /\ [](wired => init = Filter(dependencies, OnInit))
    /\ [](\A i \in 1..Len(InitLog(log)) :
            InitLog(log)[i] = IF i % 2 = 1 THEN Event("OnInit", init[(i + 1) \div 2])
                              ELSE Event("OnInit done", init[i \div 2]))
    /\ [](ignitePc \in {"initYield", "initAwait"} =>
            /\ Len(InitLog(log)) = 2 * initIndex - 1
            /\ log[Len(log)] = Event("OnInit", init[initIndex]))

\* the second init handler runs after the first had suspended and completed,
\* and is itself waiting for its promise while a third has not been called
C7_Witness ==
    /\ ignitePc = "initAwait"
    /\ initIndex = 2
    /\ Len(init) = 3
    /\ Len(InitLog(log)) = 3

\* C8 as stated: when an init handler fails, by throwing or by a rejected
\* promise, ignite() ends with an error that reports the identifier of the
\* failing instance, and afterwards no init, start or recurring handler is
\* invoked.
C8_InitFailure ==
    /\ [](ignitePc = "failed" /\ wired =>
            /\ igniteError.kind = "OnInitFailed"
            /\ igniteError.id = GetIdentifier(init[initIndex]))
    /\ [][ignitePc = "failed" => ignitePc' = "failed" /\ log' = log /\ frame'.begun = {}]_vars

\* the part of C8 that holds: after a failed init handler nothing is invoked
C8_NothingAfterFailure ==
    [][ignitePc = "failed" => ignitePc' = "failed" /\ log' = log /\ frame'.begun = {}
                              /\ connected' = connected]_vars

\* the constructor of type a names the identifier of type b
Edge(a, b) ==
    \E k \in 1..Len(ParametersOf(a)) : idToObj[ParametersOf(a)[k]] = b

\* a depends on b through one or more edges between the types
DependsOn(a, b) ==
    \/ Edge(a, b)
    \/ \E c \in Types : Edge(a, c) /\ Edge(c, b)
    \/ \E c, d \in Types : Edge(a, c) /\ Edge(c, d) /\ Edge(d, b)

\* the position of the call of the init handler of obj in the log, 0 if none
InitCalled(obj) ==
    IF \E p \in 1..Len(log) : log[p] = Event("OnInit", obj)
    THEN CHOOSE p \in 1..Len(log) : log[p] = Event("OnInit", obj)
    ELSE 0

\* the load order the registration of the class of obj gives it
DeclaredLoadOrder(obj) ==
    IF GetMetadata(obj, "flamework:loadOrder").has
    THEN GetMetadata(obj, "flamework:loadOrder").v.n
    ELSE 1

\* C9: of two cached singletons with equal load order of which the first
\* depends on the second through constructor dependency edges, directly or
\* through other types, and not the other way round, the second comes first
\* in the final order, and the init handler of the second has completed
\* before that of the first is called.
C9_DependencyFirst ==
    /\ [](wired =>
            \A i, j \in 1..Len(dependencies) :
                /\ i # j
                /\ DeclaredLoadOrder(dependencies[i].obj) = DeclaredLoadOrder(dependencies[j].obj)
                /\ DependsOn(dependencies[i].obj.t, dependencies[j].obj.t)
                /\ ~DependsOn(dependencies[j].obj.t, dependencies[i].obj.t)
                => j < i)
    /\ [](\A a, b \in Types :
            /\ resolvedSingletons[a] # Undefined /\ resolvedSingletons[b] # Undefined
            /\ InitCalled(resolvedSingletons[a]) > 0
            /\ DeclaredLoadOrder(Class(a)) = DeclaredLoadOrder(Class(b))
            /\ DependsOn(a, b) /\ ~DependsOn(b, a)
            => \E p \in 1..(InitCalled(resolvedSingletons[a]) - 1) :
                    log[p] = Event("OnInit done", resolvedSingletons[b]))

\* an ignition completed in which three singletons of equal load order form
\* a chain of dependencies, and the init handlers ran from the far end of it
C9_Witness ==
    /\ ignitePc = "done"
    /\ Len(dependencies) = 3
    /\ \E a, b, c \in Types :
        /\ Edge(a, b) /\ Edge(b, c) /\ ~Edge(a, c)
        /\ DeclaredLoadOrder(Class(a)) = DeclaredLoadOrder(Class(c))
        /\ 0 < InitCalled(resolvedSingletons[c])
        /\ InitCalled(resolvedSingletons[c]) < InitCalled(resolvedSingletons[b])
        /\ InitCalled(resolvedSingletons[b]) < InitCalled(resolvedSingletons[a])

\* C10: the load order is the first key of the final order: an instance with
\* a smaller load order comes before one with a larger load order, also when
\* the former depends on the latter, and so do their init handlers; a type
\* without a load order counts as a type with load order 1.
C10_LoadOrderFirst ==
    /\ [](wired =>
            \A i, j \in 1..Len(dependencies) :
                DeclaredLoadOrder(dependencies[i].obj) < DeclaredLoadOrder(dependencies[j].obj)
                => i < j)
    /\ [](wired => \A i \in 1..Len(dependencies) :
                    dependencies[i].loadOrder = DeclaredLoadOrder(dependencies[i].obj))
    /\ [](\A a, b \in Types :
            /\ resolvedSingletons[a] # Undefined /\ resolvedSingletons[b] # Undefined
            /\ DeclaredLoadOrder(Class(a)) < DeclaredLoadOrder(Class(b))
            /\ InitCalled(resolvedSingletons[b]) > 0
            /\ \E i \in 1..Len(init) : init[i] = resolvedSingletons[a]
            => \E p \in 1..(InitCalled(resolvedSingletons[b]) - 1) :
                    log[p] = Event("OnInit done", resolvedSingletons[a]))

\* an ignition completed in which a singleton with load order 0 depends on a
\* singleton without a load order and was initialised before it
C10_Witness ==
    /\ ignitePc = "done"
    /\ \E a, b \in Types :
        /\ DependsOn(a, b)
        /\ GetMetadata(Class(a), "flamework:loadOrder") = Present(NumberValue(0))
        /\ ~GetMetadata(Class(b), "flamework:loadOrder").has
        /\ 0 < InitCalled(resolvedSingletons[a])
        /\ InitCalled(resolvedSingletons[a]) < InitCalled(resolvedSingletons[b])

\* the final orders lines 211-233 can leave in the present state: one for
\* every order in which the loop of line 212 can meet the cached singletons
\* and every result the sort can give
FinalOrders ==
    UNION {LET collected == [i \in 1..Len(order) |->
                                [obj |-> resolvedSingletons[order[i]],
                                 loadOrder |-> LoadOrderOf(order[i])]]
               sortedDependencies ==
                    TopologicalSort([i \in 1..Len(order) |-> GetIdentifier(collected[i].obj)])
           IN  IF Incomparable(collected, sortedDependencies) THEN {}
               ELSE Sorted(collected, sortedDependencies) :
           order \in Orders({ctor \in Constructors : resolvedSingletons[ctor] # Undefined})}

\* C11: the final order is a function of the registrations: when ignite()
\* comes to order the cached singletons, the order in which the cache
\* hands them out and the choices of the sort leave one final order only.
C11_OneFinalOrder ==
    [](ignitePc = "roots" /\ callStack = <<>> /\ rootsLeft = {}
            => Cardinality(FinalOrders) <= 1)

\* C20: whenever no resolution is in progress the loading list is empty,
\* also after a resolution that failed; and a resolution fails with
\* CircularDependency only for a type that depends on itself through the
\* registered constructor dependencies.
C20_LoadingListEmpty ==
    /\ [](callStack = <<>> => loadingList = <<>>)
    /\ [](call.status = "threw" /\ call.err.kind = "CircularDependency"
            => DependsOn(call.err.ctor, call.err.ctor))

\* the instances whose start handler was issued, in the order of the log
RECURSIVE StartLog(_)
StartLog(events) ==
    IF events = <<>> THEN <<>>
    ELSE (IF events[1].ev = "OnStart" THEN <<events[1].obj>> ELSE <<>>)
         \o StartLog(Tail(events))

\* ignite() returns in this step
IgniteReturns == ignitePc # "done" /\ ignitePc' = "done"

\* the singleton of ctor was among those ignite() collected at line 212
Collected(ctor) ==
    \E i \in 1..Len(dependencies) : dependencies[i].obj = resolvedSingletons[ctor]

\* every start handler in the log was issued after every init handler had
\* completed
StartAfterInit ==
    \A i \in 1..Len(log) :
        log[i].ev = "OnStart" =>
            \A k \in 1..Len(init) : \E j \in 1..(i - 1) : log[j] = Event("OnInit done", init[k])

\* C12: when ignite() returns, every cached singleton that implements
\* OnStart has had its start handler issued exactly once, in the final
\* order, after all init handlers completed.
C12_StartAllCached ==
    /\ [][IgniteReturns =>
            \A ctor \in Constructors :
                resolvedSingletons'[ctor] # Undefined
                /\ Implements(resolvedSingletons'[ctor], OnStart)
                => Cardinality({i \in 1..Len(log') :
                                    log'[i] = Event("OnStart", resolvedSingletons'[ctor])}) = 1]_vars
    /\ []StartAfterInit

\* C12, for the singletons that were cached when ignite() collected them:
\* when ignite() returns, the start handlers issued are those of the
\* collected singletons that implement OnStart, each once, in the final
\* order, and each was issued after all init handlers had completed.
C12_StartCollected ==
    /\ [][IgniteReturns => StartLog(log') = Filter(dependencies', OnStart)]_vars
    /\ []StartAfterInit

\* ignite() returned after two start handlers, and a singleton that was
\* resolved while an init handler was suspended is cached without them
C12_Witness ==
    /\ ignitePc = "done"
    /\ Len(StartLog(log)) >= 2
    /\ Len(init) >= 1
    /\ \E ctor \in Constructors :
        /\ resolvedSingletons[ctor] # Undefined
        /\ Implements(resolvedSingletons[ctor], OnStart)
        /\ ~Collected(ctor)

\* ------------------------------------------------------------------------
\* The calls the program makes to the Listener Registry itself
\* ------------------------------------------------------------------------
\* Modding.addListener(object) for an instance the program constructed
\* before, or constructs now
CallAddListener(object) ==
    /\ ~IgniteSync
    /\ callStack = <<>>
    /\ object.n <= nextObject[object.t]
    /\ nextObject' = IF object.n = nextObject[object.t]
                     THEN [nextObject EXCEPT ![object.t] = @ + 1] ELSE nextObject
    /\ SetRegistry(AddListenerTo(object, Fresh))
    /\ UNCHANGED <<spawnVars, reflectVars, dependencyResolution, resolvedSingletons, loadingList,
                   callStack, call, ctorRuns, returned, subscriptions,
                   hasFlameworkIgnited, ignitePc, rootsLeft, dependencies, init, start,
                   initIndex, startIndex, connected, igniteError, wired, igniteCalls,
                   ignitions, misuses, log, threadVars>>
    /\ QuietFrame

\* Modding.removeListener(object) for an instance that exists
CallRemoveListener(object) ==
    /\ ~IgniteSync
    /\ callStack = <<>>
    /\ object.n < nextObject[object.t]
    /\ \E ids \in Orders(IF object \in DOMAIN listeners THEN listeners[object].eventIds ELSE {}) :
        SetRegistry(RemoveListenerFrom(object, ids, Fresh))
    /\ UNCHANGED <<spawnVars, reflectVars, dependencyResolution, resolvedSingletons, loadingList,
                   callStack, call, nextObject, ctorRuns, returned, subscriptions,
                   hasFlameworkIgnited, ignitePc, rootsLeft, dependencies, init, start,
                   initIndex, startIndex, connected, igniteError, wired, igniteCalls,
                   ignitions, misuses, log, threadVars>>
    /\ QuietFrame

\* the registry with one more callback of the program, not yet called
Subscribed == [Fresh EXCEPT !.received = Append(@, NoCalls)]

\* Modding.onListenerAdded(func, id) with a callback of the program
CallOnListenerAdded(id) ==
    /\ ~IgniteSync
    /\ callStack = <<>>
    /\ Len(subscriptions) < MaxSubscriptions
    /\ subscriptions' = Append(subscriptions, [signal |-> "added", id |-> id])
    /\ SetRegistry(OnListenerAddedTo(Callback(Len(subscriptions) + 1), id, Subscribed))
    /\ UNCHANGED <<spawnVars, reflectVars, dependencyResolution, resolvedSingletons, loadingList,
                   callStack, call, nextObject, ctorRuns, returned,
                   hasFlameworkIgnited, ignitePc, rootsLeft, dependencies, init, start,
                   initIndex, startIndex, connected, igniteError, wired, igniteCalls,
                   ignitions, misuses, log, threadVars>>
    /\ QuietFrame

\* Modding.onListenerRemoved(func, id) with a callback of the program
CallOnListenerRemoved(id) ==
    /\ ~IgniteSync
    /\ callStack = <<>>
    /\ Len(subscriptions) < MaxSubscriptions
    /\ subscriptions' = Append(subscriptions, [signal |-> "removed", id |-> id])
    /\ SetRegistry(OnListenerRemovedTo(Callback(Len(subscriptions) + 1), id, Subscribed))
    /\ UNCHANGED <<spawnVars, reflectVars, dependencyResolution, resolvedSingletons, loadingList,
                   callStack, call, nextObject, ctorRuns, returned,
                   hasFlameworkIgnited, ignitePc, rootsLeft, dependencies, init, start,
                   initIndex, startIndex, connected, igniteError, wired, igniteCalls,
                   ignitions, misuses, log, threadVars>>
    /\ QuietFrame

\* ------------------------------------------------------------------------
\* Steady state: services A and B and the class C, which extends A and is
\* not started by ignite(); B is loaded first; A has OnStart and OnTick, B
\* has OnStart and OnPhysics and lists the identifier of OnTick as a
\* decorator, C adds OnTick and OnRender of its own and carries a decorator.
\* The program, a client, ignites, registers and unregisters instances, the
\* frame signals fire, and handlers return, throw or suspend.
\* ------------------------------------------------------------------------
DispatchMetadata ==
    [o \in Objects |->
        [key \in Keys |->
            CASE key = "identifier" /\ IdentifierIn(IgniteRegistry, o) # NoId ->
                    Present(IdentifierIn(IgniteRegistry, o))
              [] key = "flamework:singleton" /\ o \in {"A", "B"} -> Present(BooleanValue(TRUE))
              [] key = "flamework:optional" /\ o = "C" -> Present(BooleanValue(TRUE))
              [] key = "flamework:loadOrder" /\ o = "B" -> Present(NumberValue(0))
              [] key = "flamework:implements" /\ o = "A" -> Present(<<OnStart, OnTick>>)
              [] key = "flamework:implements" /\ o = "B" ->
                    Present(<<OnStart, OnPhysics>>)
              [] key = "flamework:decorators" /\ o = "B" -> Present(<<OnTick>>)
              [] key = "flamework:implements" /\ o = "C" -> Present(<<OnTick, OnRender>>)
              [] key = "flamework:decorators" /\ o = "C" -> Present(<<Marker>>)
              [] OTHER -> Absent]]

InitDispatch ==
    /\ idToObj = IgniteRegistry
    /\ objToId = [o \in Objects |-> IdentifierIn(IgniteRegistry, o)]
    /\ metadata = DispatchMetadata
    /\ InitSetup
    /\ InitContainer
    /\ InitIgnite
    /\ handlers = SpawnOutcomes
    /\ isClient = TRUE

NextDispatch ==
    \/ Ignite
    \/ IgniteResolveSingleton
    \/ FinishConstruction
    \/ IgniteSort
    \/ IgniteConnect
    \/ IgniteStart
    \/ Heartbeat
    \/ Stepped
    \/ RenderStepped
    \/ \E thread \in 1..MaxThreads : ResumeThread(thread)
    \/ CallAddListener(Instance("C", 1))
    \/ \E object \in Instances : CallRemoveListener(object)

SpecDispatch == InitDispatch /\ [][NextDispatch]_vars

\* ------------------------------------------------------------------------
\* The Listener Registry on its own: A lists Both as a lifecycle event; C,
\* which extends A, lists Both and OnTick as lifecycle events and Both and
\* Marker as decorators; B has Both as a decorator, or nothing.  The program
\* registers and unregisters instances and subscribes callbacks in any
\* order.
\* ------------------------------------------------------------------------
ListenerMetadata(decorated) ==
    [o \in Objects |->
        [key \in Keys |->
            CASE key = "identifier" /\ IdentifierIn(IgniteRegistry, o) # NoId ->
                    Present(IdentifierIn(IgniteRegistry, o))
              [] key = "flamework:implements" /\ o = "A" -> Present(<<Both>>)
              [] key = "flamework:implements" /\ o = "C" -> Present(<<Both, OnTick>>)
              [] key = "flamework:decorators" /\ o = "C" -> Present(<<Both, Marker>>)
              [] key = "flamework:decorators" /\ o = "B" /\ decorated -> Present(<<Both>>)
              [] OTHER -> Absent]]

InitListeners ==
    /\ idToObj = IgniteRegistry
    /\ objToId = [o \in Objects |-> IdentifierIn(IgniteRegistry, o)]
    /\ \E decorated \in BOOLEAN : metadata = ListenerMetadata(decorated)
    /\ InitSetup
    /\ InitContainer
    /\ InitIgnite
    /\ handlers = {"return"}
    /\ isClient = FALSE

NextListeners ==
    \/ \E T \in Types : CallAddListener(Instance(T, 1))
    \/ \E T \in Types : CallRemoveListener(Instance(T, 1))
    \/ \E id \in {NoEvent, Both} : CallOnListenerAdded(id)
    \/ \E id \in {NoEvent, Both, Marker} : CallOnListenerRemoved(id)

SpecListeners == InitListeners /\ [][NextListeners]_vars

\* the scheduler lets ignite() go on while it is in its start loop
SpecDispatchFair == SpecDispatch /\ WF_vars(IgniteStart)

\* ------------------------------------------------------------------------
\* Properties of the start loop and the frame dispatch (SpecDispatch)
\* ------------------------------------------------------------------------

\* C13: start handlers are fire-and-forget: whatever a start handler does,
\* return, throw or suspend for ever, the loop goes on to the next instance
\* of the start list, every start handler has been issued when ignite()
\* returns, and ignite() does return.
C13_FireAndForget ==
    /\ [][ignitePc = "start" =>
            /\ ignitePc' \in {"start", "done"}
            /\ startIndex <= Len(start) =>
                    /\ startIndex' = startIndex + 1
                    /\ log' = Append(log, Event("OnStart", start[startIndex]))]_vars
    /\ [](ignitePc = "done" => StartLog(log) = start)
    /\ (ignitePc = "start" ~> ignitePc = "done")

\* ignite() has returned, two start handlers were issued, and both are still
\* suspended
C13_Witness ==
    /\ ignitePc = "done"
    /\ Len(start) >= 2
    /\ StartLog(log) = start
    /\ Cardinality(Suspended) = Len(start)
    /\ \A thread \in Suspended : threads[thread].job = OnStart

\* the live map of a recurring phase
LiveMap(event) ==
    CASE event = OnTick -> tick
      [] event = OnPhysics -> physics
      [] event = OnRender -> render
      [] OTHER -> {}

\* C14: on every frame signal the handler of every instance of the live map
\* of the phase is begun in that frame, also when the handler of the first
\* instance dispatched throws or suspends and when a handler of the phase
\* begun by an earlier signal is still suspended.
C14_FrameDispatch ==
    [](frame.phase # NoEvent => frame.begun = LiveMap(frame.phase))

\* a Heartbeat began two handlers or more although the first one threw or
\* suspended and one begun by an earlier Heartbeat was still suspended
C14_Witness ==
    /\ frame.phase = OnTick
    /\ Cardinality(frame.begun) >= 2
    /\ frame.stalled
    /\ frame.pending

\* the interest set the registry keeps for an identifier
InterestSet(id) ==
    (IF lifecycleListeners[id].has THEN lifecycleListeners[id].v ELSE {})
    \cup (IF decoratorListeners[id].has THEN decoratorListeners[id].v ELSE {})

\* C15: from the subscriptions of ignite() on, whenever a call of
\* addListener or removeListener has completed, the key set of each live
\* map is the interest set of its phase; and a frame signal begins the
\* handler of every registered instance that implements its phase, whenever
\* the instance was registered.  (The singleton of B, which lists OnTick as
\* a decorator while A implements it, is in the interest set of OnTick and
\* is not replayed into the tick map.)
C15_LiveMaps ==
    /\ [](wired => /\ tick = InterestSet(OnTick)
                   /\ physics = InterestSet(OnPhysics)
                   /\ render = InterestSet(OnRender))
    /\ [](frame.phase # NoEvent =>
            \A object \in DOMAIN listeners :
                Implements(object, frame.phase) => object \in frame.begun)

\* C16: an instance that is not registered, be it after removeListener, is
\* in no interest set, has no listener record and is in no live map, and no
\* frame signal begins a handler of an instance that is not registered.
C16_Unregistered ==
    /\ [](\A object \in Instances :
            object \notin DOMAIN listeners =>
                /\ \A id \in EventIds : object \notin InterestSet(id)
                /\ object \notin tick \cup physics \cup render)
    /\ [](frame.begun \subseteq DOMAIN listeners)

\* the singleton of B was unregistered after ignite() connected the frame
\* signals: it left the tick map and the physics map
C16_Witness ==
    /\ connected
    /\ \E i \in 1..Len(fired) :
        /\ fired[i].signal = "removed"
        /\ fired[i].id = OnPhysics
        /\ fired[i].object = resolvedSingletons["B"]
    /\ resolvedSingletons["B"] \notin DOMAIN listeners
    /\ tick # {}

\* ------------------------------------------------------------------------
\* Properties of the Listener Registry (SpecListeners)
\* ------------------------------------------------------------------------
\* the identifiers the metadata of an object lists, as lifecycle events of
\* its class or an ancestor or as decorators
Satisfied(object) ==
    LET implemented == Flatten(GetMetadatas(object, "flamework:implements"))
        decorators == GetMetadata(object, "flamework:decorators")
    IN  {implemented[i] : i \in 1..Len(implemented)}
        \cup (IF decorators.has THEN {decorators.v[i] : i \in 1..Len(decorators.v)} ELSE {})

\* how often the calls of the last step fired the event of id
TimesFired(calls, id) == Cardinality({i \in 1..Len(calls) : calls[i].id = id})

\* the last step was a call of addListener, of removeListener
ListenerAdded(calls) ==
    calls # <<>> /\ calls[Len(calls)].signal = "added" /\ calls[Len(calls)].id = NoEvent
ListenerRemoved(calls) ==
    calls # <<>> /\ calls[Len(calls)].signal = "removed" /\ calls[Len(calls)].id = NoEvent

\* C17: one addListener(object) leaves the object in the interest set of
\* every identifier it satisfies, fires the added event of each of these
\* identifiers that has one exactly once, however often the identifier is
\* listed, and then fires the global added event exactly once; every
\* subscribed callback in whose scope the object is gets it once.
C17_Register ==
    [](ListenerAdded(fired) =>
        LET object == fired[Len(fired)].object
        IN  /\ object \in DOMAIN listeners
            /\ listeners[object].eventIds = Satisfied(object)
            /\ \A id \in Satisfied(object) : object \in InterestSet(id)
            /\ \A id \in EventIds :
                TimesFired(fired, id) =
                    IF id \in Satisfied(object) /\ listenerAddedEvents[id].has THEN 1 ELSE 0
            /\ TimesFired(fired, NoEvent) = 1
            /\ \A i \in 1..Len(fired) : fired[i].object = object /\ fired[i].signal = "added"
            /\ \A n \in 1..Len(subscriptions), o \in Instances :
                received[n][o] =
                    IF /\ o = object
                       /\ subscriptions[n].signal = "added"
                       /\ subscriptions[n].id \in Satisfied(object) \cup {NoEvent}
                    THEN 1 ELSE 0)

\* an instance of C, which lists Both itself, through A and as a decorator,
\* was registered: the event of Both and the global event fired once each
C17_Witness ==
    /\ ListenerAdded(fired)
    /\ fired = <<[signal |-> "added", id |-> Both, object |-> Instance("C", 1),
                  tracked |-> {Both}],
                 [signal |-> "added", id |-> NoEvent, object |-> Instance("C", 1),
                  tracked |-> {Both, OnTick, Marker}]>>
    /\ \E n \in 1..Len(subscriptions) :
        subscriptions[n].id = Both /\ received[n][Instance("C", 1)] = 1

\* C18: removeListener(object) fires the removed event of every identifier
\* the object was tracked under that has one exactly once, then the global
\* removed event once, and whenever one of these events fires the object
\* is in no interest set any more.
C18_Unregister ==
    [][ListenerRemoved(fired') =>
        LET object == fired'[Len(fired')].object
        IN  /\ \A id \in EventIds :
                TimesFired(fired', id) =
                    IF id \in listeners[object].eventIds /\ listenerRemovedEvents[id].has
                    THEN 1 ELSE 0
            /\ TimesFired(fired', NoEvent) = 1
            /\ \A i \in 1..Len(fired') :
                /\ fired'[i].object = object
                /\ fired'[i].signal = "removed"
                /\ fired'[i].tracked = {}
            /\ \A n \in 1..Len(subscriptions), o \in Instances :
                received'[n][o] =
                    IF /\ o = object
                       /\ subscriptions[n].signal = "removed"
                       /\ subscriptions[n].id \in listeners[object].eventIds \cup {NoEvent}
                    THEN 1 ELSE 0]_vars

\* an instance tracked under Both and Marker was removed: two removed events
\* and the global one were fired
C18_Witness ==
    /\ ListenerRemoved(fired)
    /\ Len(fired) = 3
    /\ {fired[1].id, fired[2].id} = {Both, Marker}

\* the listeners in the scope of a subscription
Scope(id) == IF id = NoEvent THEN DOMAIN listeners ELSE InterestSet(id)

\* C19: onListenerAdded(callback, id) calls the callback during the call
\* once for every registered listener in its scope, all listeners without
\* id and the interest set of id with it, and later once for each
\* registration in the scope; onListenerRemoved calls it for no listener
\* during the call.
C19_Replay ==
    /\ [][Len(subscriptions') = Len(subscriptions) + 1 =>
            LET n == Len(subscriptions')
            IN  \A o \in Instances :
                    received'[n][o] =
                        IF subscriptions'[n].signal = "added" /\ o \in Scope(subscriptions'[n].id)
                        THEN 1 ELSE 0]_vars
    /\ [](ListenerAdded(fired) =>
            \A n \in 1..Len(subscriptions) :
                subscriptions[n].signal = "added"
                /\ fired[Len(fired)].object \in Scope(subscriptions[n].id)
                => received[n][fired[Len(fired)].object] = 1)

\* ------------------------------------------------------------------------
\* createDependency called by the program (SpecCreate): A and B with at most
\* one constructor dependency each, on A or on B (also on themselves); B may
\* carry resolution options whose callback answers the identifier of B
\* ------------------------------------------------------------------------
\* Modding.createDependency(ctor), lines 419-425, called from outside a
\* resolution with the default options {}
CreateDependency(ctor) ==
    /\ callStack = <<>>
    /\ ~IgniteSync
    /\ callStack' = <<Frame(ctor, NoOptions, FALSE)>>
    /\ call' = NewCall("createDependency", ctor, NoId)
    /\ IgniteFollows
    /\ UNCHANGED <<spawnVars, reflectVars, dependencyResolution, resolvedSingletons, loadingList,
                   listeners, tick, nextObject, ctorRuns, returned, registryVars>>
    /\ QuietRegistry

CreateParams == {<<>>, <<IdA>>, <<IdPB>>}

InitCreate ==
    /\ idToObj = ResolveRegistry
    /\ objToId = [o \in Objects |-> IdentifierIn(ResolveRegistry, o)]
    /\ \E paramsA \in CreateParams, paramsB \in CreateParams :
       \E withOptions \in SUBSET {"B"} :
       \E options \in [withOptions -> {o \in OptionChoices : o.hasHandle}] :
            metadata = MetadataChoice(ResolveRegistry,
                                      [o \in {"A", "B"} |-> IF o = "A" THEN paramsA ELSE paramsB],
                                      options)
    /\ InitSetup
    /\ InitContainer
    /\ InitIgnite
    /\ handlers = {"return"}
    /\ isClient = FALSE

NextCreate ==
    \/ \E ctor \in {"A", "B"} : CreateDependency(ctor)
    \/ \E ctor \in {"A", "B"} : ResolveSingleton(ctor)
    \/ ResolveNextDependency
    \/ FinishConstruction
    \/ ConstructorThrows

SpecCreate == InitCreate /\ [][NextCreate]_vars

\* the step ends a createDependency call of the program with a value
CreateReturns ==
    /\ call.op = "createDependency" /\ call.status = "running"
    /\ call'.status = "returned"

\* the step runs the constructor of the innermost construction
Constructs == callStack # <<>> /\ nextObject'[Top.ctor] = nextObject[Top.ctor] + 1

\* every argument of the constructor that is an instance of a class is the
\* cached singleton of that class
ArgumentsShared ==
    \A k \in 1..Len(Top.args) :
        Top.args[k].k = "object" => Top.args[k] = resolvedSingletons[Top.args[k].t]

GetObjMetadata(obj, property) ==
    IF obj.k # "class" THEN NoMetadata
    ELSE IF property = NoProperty THEN metadata[obj.t]
    ELSE propertyMetadata[obj.t][property]

\* getOwnMetadata(obj, key, property), lines 83-86
GetOwnMetadataOf(obj, key, property) == GetObjMetadata(obj, property)[key]

\* a getMetadata that goes on to the parent when the own value is false
RECURSIVE GetMetadataOf_Truthy(_, _, _)
GetMetadataOf_Truthy(obj, key, property) ==
    IF Truthy(GetOwnMetadataOf(obj, key, property)) THEN GetOwnMetadataOf(obj, key, property)
    ELSE IF GetParentConstructor(obj) # Undefined
         THEN GetMetadataOf_Truthy(GetParentConstructor(obj), key, property)
         ELSE Absent

\* getMetadata(obj, key, property), lines 147-157
RECURSIVE GetMetadataOf(_, _, _)
GetMetadataOf(obj, key, property) ==
    IF GetOwnMetadataOf(obj, key, property).has THEN GetOwnMetadataOf(obj, key, property)
    ELSE IF GetParentConstructor(obj) # Undefined
         THEN GetMetadataOf(GetParentConstructor(obj), key, property)
         ELSE Absent

\* a getMetadatas that lists the parent's values first
RECURSIVE GetMetadatasOf_ParentFirst(_, _, _)
GetMetadatasOf_ParentFirst(obj, key, property) ==
    (IF GetParentConstructor(obj) # Undefined
     THEN GetMetadatasOf_ParentFirst(GetParentConstructor(obj), key, property)
     ELSE <<>>)
    \o (IF GetOwnMetadataOf(obj, key, property).has
        THEN <<GetOwnMetadataOf(obj, key, property).v>> ELSE <<>>)

\* getMetadatas(obj, key, property), lines 127-141
RECURSIVE GetMetadatasOf(_, _, _)
GetMetadatasOf(obj, key, property) ==
    (IF GetOwnMetadataOf(obj, key, property).has
     THEN <<GetOwnMetadataOf(obj, key, property).v>> ELSE <<>>)
    \o (IF GetParentConstructor(obj) # Undefined
        THEN GetMetadatasOf(GetParentConstructor(obj), key, property)
        ELSE <<>>)

\* metadata.set(key, value) of a Lua table: the value nil removes the key;
\* an identifier is kept as its characters
Entry(value) ==
    IF value = Undefined THEN Absent
    ELSE IF value.k = "string" THEN Present(value.s)
    ELSE Present(value)

\* the map of obj (or of its property) with list written into it
SetAll(obj, property, list) ==
    LET written(old) == [key \in Keys |-> IF key \in DOMAIN list THEN Entry(list[key])
                                          ELSE old[key]]
    IN  IF property = NoProperty
        THEN /\ metadata' = [metadata EXCEPT ![obj] = written(@)]
             /\ UNCHANGED propertyMetadata
        ELSE /\ propertyMetadata' = [propertyMetadata EXCEPT ![obj][property] = written(@)]
             /\ UNCHANGED metadata

\* the failed assertions of defineMetadata and the errors of patchDependency
IdentifierNotString == [kind |-> "IdentifierNotString", chain |-> <<>>, id |-> NoId,
                        ctor |-> NoObject]
ObjAlreadyRegistered(obj) == [kind |-> "ObjAlreadyRegistered", chain |-> <<>>, id |-> NoId,
                              ctor |-> NoObject]
IdAlreadyRegistered(id) == [kind |-> "IdAlreadyRegistered", chain |-> <<>>, id |-> NoId,
                            ctor |-> NoObject]
DependencyNotFound(id) == [kind |-> "DependencyNotFound", chain |-> <<>>, id |-> NoId,
                           ctor |-> NoObject]
AlreadyResolved(id) == [kind |-> "AlreadyResolved", chain |-> <<>>, id |-> NoId,
                        ctor |-> NoObject]

\* a call of the program that is no resolution: how it ended (of a call that
\* returned nothing more is kept, of an error its kind)
Done == [NewCall("reflect", NoObject, NoId) EXCEPT !.status = "returned"]
Refused(op, e) == [NewCall(op, NoObject, NoId) EXCEPT !.status = "threw", !.err = e]

\* what the calls below leave alone
ReflectOnly ==
    /\ UNCHANGED <<dependencyResolution, resolvedSingletons, loadingList, listeners,
                   callStack, nextObject, ctorRuns, returned, igniteVars, registryVars,
                   threadVars, spawnVars, flameworkConfig, externalClasses>>
    /\ Quiet

\* a defineMetadata that registers the identifier before it looks whether
\* the identifier is taken
DefineMetadata_RegisterFirst(obj, key, value, property) ==
    /\ callStack = <<>>
    /\ ~IgniteSync
    /\ IF key = "identifier" /\ value.k # "string"
       THEN /\ call' = Refused("defineMetadata", IdentifierNotString)
            /\ UNCHANGED <<metadata, propertyMetadata, objToId, idToObj>>
       ELSE IF key = "identifier" /\ objToId[obj] # NoId
       THEN /\ call' = Refused("defineMetadata", ObjAlreadyRegistered(obj))
            /\ UNCHANGED <<metadata, propertyMetadata, objToId, idToObj>>
       ELSE IF key = "identifier" /\ idToObj[value.s] # NoObject
       THEN /\ call' = Refused("defineMetadata", IdAlreadyRegistered(value.s))
            /\ objToId' = [objToId EXCEPT ![obj] = value.s]
            /\ UNCHANGED <<metadata, propertyMetadata, idToObj>>
       ELSE /\ call' = Done
            /\ IF key = "identifier"
               THEN /\ objToId' = [objToId EXCEPT ![obj] = value.s]
                    /\ idToObj' = [idToObj EXCEPT ![value.s] = obj]
               ELSE UNCHANGED <<objToId, idToObj>>
            /\ SetAll(obj, property, (key :> value))
    /\ ReflectOnly

\* Reflect.defineMetadata(obj, key, value, property), lines 45-58
DefineMetadata(obj, key, value, property) ==
    /\ callStack = <<>>
    /\ ~IgniteSync
    /\ IF key = "identifier" /\ value.k # "string"
       THEN /\ call' = Refused("defineMetadata", IdentifierNotString)
            /\ UNCHANGED <<metadata, propertyMetadata, objToId, idToObj>>
       ELSE IF key = "identifier" /\ objToId[obj] # NoId
       THEN /\ call' = Refused("defineMetadata", ObjAlreadyRegistered(obj))
            /\ UNCHANGED <<metadata, propertyMetadata, objToId, idToObj>>
       ELSE IF key = "identifier" /\ idToObj[value.s] # NoObject
       THEN /\ call' = Refused("defineMetadata", IdAlreadyRegistered(value.s))
            /\ UNCHANGED <<metadata, propertyMetadata, objToId, idToObj>>
       ELSE /\ call' = Done
            /\ IF key = "identifier"
               THEN /\ objToId' = [objToId EXCEPT ![obj] = value.s]
                    /\ idToObj' = [idToObj EXCEPT ![value.s] = obj]
               ELSE UNCHANGED <<objToId, idToObj>>
            /\ SetAll(obj, property, (key :> value))
    /\ ReflectOnly

\* Reflect.defineMetadataBatch(obj, list, property), lines 63-69
DefineMetadataBatch(obj, list, property) ==
    /\ callStack = <<>>
    /\ ~IgniteSync
    /\ call' = Done
    /\ SetAll(obj, property, list)
    /\ UNCHANGED <<objToId, idToObj>>
    /\ ReflectOnly

\* Reflect.deleteMetadata(obj, key, property), lines 74-77
DeleteMetadata(obj, key, property) ==
    /\ callStack = <<>>
    /\ ~IgniteSync
    /\ call' = Done
    /\ SetAll(obj, property, (key :> Undefined))
    /\ UNCHANGED <<objToId, idToObj>>
    /\ ReflectOnly

\* Flamework.Testing.patchDependency(patchedClass, id), part_009 lines
\* 323-338.  A class that an identifier leads to has a metadata map, the one
\* its identifier was defined in or the one a patch moved to it, so the
\* error of line 331 does not arise.
PatchDependency(patchedClass, id) ==
    /\ callStack = <<>>
    /\ ~IgniteSync
    /\ IF idToObj[id] = NoObject
       THEN /\ call' = Refused("patchDependency", DependencyNotFound(id))
            /\ UNCHANGED <<metadata, propertyMetadata, objToId, idToObj>>
       ELSE IF idToObj[id] \in Constructors /\ resolvedSingletons[idToObj[id]] # Undefined
       THEN /\ call' = Refused("patchDependency", AlreadyResolved(id))
            /\ UNCHANGED <<metadata, propertyMetadata, objToId, idToObj>>
       ELSE LET idCtor == idToObj[id]
                objMetadata == [metadata[idCtor] EXCEPT
                                    !["flamework:isPatched"] = Present(BooleanValue(TRUE))]
            IN  /\ call' = Done
                /\ metadata' = [metadata EXCEPT ![idCtor] = NoMetadata,
                                                ![patchedClass] = objMetadata]
                /\ propertyMetadata' =
                        [propertyMetadata EXCEPT ![idCtor] = NoProperties[idCtor],
                                                 ![patchedClass] = propertyMetadata[idCtor]]
                /\ objToId' = [objToId EXCEPT ![patchedClass] = id]
                /\ idToObj' = [idToObj EXCEPT ![id] = patchedClass]
    /\ ReflectOnly

\* what the program defines: identifiers for A and for C, the optional
\* marker true for A and for its member, false or undefined for C and for
\* its member; a batch writes several of these for one object at once
ReflectIds == {IdA, IdC}
MaybeProperty == Properties \cup {NoProperty}
ReflectDefinitions ==
    {[obj |-> obj, key |-> "identifier", value |-> value, property |-> NoProperty] :
        obj \in {"A", "C"}, value \in {StringValue(id) : id \in ReflectIds} \cup {NumberValue(1)}}
    \cup {[obj |-> "A", key |-> "flamework:optional", value |-> BooleanValue(TRUE),
           property |-> property] : property \in MaybeProperty}
    \cup {[obj |-> "C", key |-> "flamework:optional", value |-> value, property |-> property] :
            value \in {BooleanValue(FALSE), Undefined}, property \in MaybeProperty}
ReflectLists ==
    {[obj |-> d.obj, property |-> d.property, list |-> (d.key :> d.value)] :
        d \in ReflectDefinitions}
    \cup {[obj |-> pair[1].obj, property |-> pair[1].property,
           list |-> (pair[1].key :> pair[1].value) @@ (pair[2].key :> pair[2].value)] :
            pair \in {pair \in ReflectDefinitions \X ReflectDefinitions :
                        /\ pair[1].obj = pair[2].obj
                        /\ pair[1].property = pair[2].property
                        /\ pair[1].key # pair[2].key}}

InitReflect ==
    /\ metadata = [o \in Objects |-> NoMetadata]
    /\ propertyMetadata = NoProperties
    /\ objToId = [o \in Objects |-> NoId]
    /\ idToObj = [id \in AllIds |-> NoObject]
    /\ flameworkConfig = [present |-> TRUE, loadOverride |-> [has |-> FALSE, v |-> {}]]
    /\ externalClasses = {}
    /\ InitContainer
    /\ InitIgnite
    /\ handlers = {"return"}
    /\ isClient = FALSE

NextReflect ==
    \/ \E d \in ReflectDefinitions : DefineMetadata(d.obj, d.key, d.value, d.property)
    \/ \E b \in ReflectLists : DefineMetadataBatch(b.obj, b.list, b.property)
    \/ \E d \in ReflectDefinitions : DeleteMetadata(d.obj, d.key, d.property)
    \/ \E id \in ReflectIds : PatchDependency("C", id)

SpecReflect == InitReflect /\ [][NextReflect]_vars

\* the metadata store and both directions of the identity registry
ReflectStore == <<metadata, propertyMetadata, objToId, idToObj>>

\* C22: defineMetadata(obj, "identifier", v) with a string v throws when obj
\* already has an identifier or when v is already registered for an object,
\* and a defineMetadata that threw left the metadata store, objToId and
\* idToObj exactly as they were.
C22_DefineFailsWhole ==
    /\ [][\A d \in ReflectDefinitions :
            /\ d.key = "identifier"
            /\ d.value.k = "string"
            /\ (objToId[d.obj] # NoId \/ idToObj[d.value.s] # NoObject)
            /\ DefineMetadata(d.obj, d.key, d.value, d.property)
            => /\ call'.status = "threw"
               /\ call'.err.kind \in {"ObjAlreadyRegistered", "IdAlreadyRegistered"}
               /\ UNCHANGED ReflectStore]_vars
    /\ [][call'.op = "defineMetadata" /\ call'.status = "threw"
            => UNCHANGED ReflectStore]_vars

\* the identifier of A was offered to C, which has none, and was refused
C22_Witness ==
    /\ call.op = "defineMetadata"
    /\ call.status = "threw"
    /\ call.err.kind = "IdAlreadyRegistered"
    /\ idToObj[IdA] = "A"
    /\ objToId["C"] = NoId
    /\ metadata["C"]["identifier"] = Absent

\* C23: in every state objToId and idToObj are mutually inverse (obj has the
\* identifier id exactly when id leads to obj), so no object has two
\* identifiers and no identifier belongs to two objects, and an identifier
\* that is registered stays registered.
C23_Inverse ==
    /\ [](\A obj \in Objects : \A id \in AllIds : objToId[obj] = id <=> idToObj[id] = obj)
    /\ [][\A id \in AllIds : idToObj[id] # NoObject => idToObj'[id] # NoObject]_vars

\* the parent chain of a class, the class first
RECURSIVE Chain(_)
Chain(T) == <<T>> \o (IF ParentOf[T] = NoObject THEN <<>> ELSE Chain(ParentOf[T]))

\* what the store holds for the class itself
Own(T, key, property) ==
    IF property = NoProperty THEN metadata[T][key] ELSE propertyMetadata[T][property][key]

\* the classes of the chain of T that have an own value, nearest first
Defining(T, key, property) ==
    SelectSeq(Chain(T), LAMBDA U : Own(U, key, property).has)

\* C24: getMetadata(T, k, p) is the own value of the first class on the
\* parent chain of T (T first) that has an own value of k for p, and absent
\* when none has; getOwnMetadata(T, k, p) is the own value of T only; an own
\* value of T is the result of both, also when it is false.  Without a
\* property the container's two-argument reads are the same functions.
C24_Nearest ==
    \A T \in Types : \A key \in Keys : \A property \in MaybeProperty :
        /\ GetOwnMetadataOf(Class(T), key, property) = Own(T, key, property)
        /\ GetMetadataOf(Class(T), key, property)
                = IF Defining(T, key, property) = <<>> THEN Absent
                  ELSE Own(Head(Defining(T, key, property)), key, property)
        /\ Own(T, key, property).has
                => GetMetadataOf(Class(T), key, property) = Own(T, key, property)
        /\ property = NoProperty
                => /\ GetMetadata(Class(T), key) = GetMetadataOf(Class(T), key, property)
                   /\ GetOwnMetadata(Class(T), key) = GetOwnMetadataOf(Class(T), key, property)

\* C has the marker false and A has it true: C reads false; the member of C
\* has no marker and the member of A has it: C reads the one of A, and its
\* own read is absent
C24_Witness ==
    /\ metadata["A"]["flamework:optional"] = Present(BooleanValue(TRUE))
    /\ metadata["C"]["flamework:optional"] = Present(BooleanValue(FALSE))
    /\ GetMetadataOf(Class("C"), "flamework:optional", NoProperty) = Present(BooleanValue(FALSE))
    /\ propertyMetadata["A"]["member"]["flamework:optional"] = Present(BooleanValue(TRUE))
    /\ GetOwnMetadataOf(Class("C"), "flamework:optional", "member") = Absent
    /\ GetMetadataOf(Class("C"), "flamework:optional", "member") = Present(BooleanValue(TRUE))

\* C25: getMetadatas(T, k, p) holds one value for each class on the parent
\* chain of T (T included) that has an own value of k for p, in the order of
\* the chain from T outwards, and is empty when no class of the chain has one.
C25_NearestFirst ==
    \A T \in Types : \A key \in Keys : \A property \in MaybeProperty :
        /\ GetMetadatasOf(Class(T), key, property)
                = [i \in 1..Len(Defining(T, key, property)) |->
                        Own(Defining(T, key, property)[i], key, property).v]
        /\ property = NoProperty
                => GetMetadatas(Class(T), key) = GetMetadatasOf(Class(T), key, property)

\* C and A both have an identifier: the list of C holds its own and then the
\* one of A; nothing is listed for their members
C25_Witness ==
    /\ metadata["C"]["identifier"] = Present(IdC)
    /\ metadata["A"]["identifier"] = Present(IdA)
    /\ GetMetadatasOf(Class("C"), "identifier", NoProperty) = <<IdC, IdA>>
    /\ GetMetadatasOf(Class("A"), "identifier", NoProperty) = <<IdA>>
    /\ GetMetadatasOf(Class("C"), "identifier", "member") = <<>>

\* ------------------------------------------------------------------------
\* Which constructors ignite() resolves (SpecRoots).  A, B and C are
\* registered under their own identifiers, C extends A.  The build either
\* has the optional marker and includeOptionalClass (part_012) or the
\* configuration with loadOverride, the external classes and
\* Testing.patchDependency (part_009); the phases of ignite() after the
\* loop over the constructors are those of part_012 in both.
\* ------------------------------------------------------------------------
\* Flamework.includeOptionalClass(ctor), part_012 lines 183-185
IncludeOptionalClass(ctor) ==
    DefineMetadata(ctor, "flamework:optional", BooleanValue(FALSE), NoProperty)

\* Flamework.registerExternalClass(ctor), part_009 lines 149-151
RegisterExternalClass(ctor) ==
    /\ callStack = <<>>
    /\ ~IgniteSync
    /\ externalClasses' = externalClasses \cup {ctor}
    /\ call' = Done
    /\ UNCHANGED <<metadata, propertyMetadata, objToId, idToObj, flameworkConfig,
                   dependencyResolution, resolvedSingletons, loadingList, listeners,
                   callStack, nextObject, ctorRuns, returned, igniteVars, registryVars,
                   threadVars, spawnVars>>
    /\ Quiet

\* no patchedConfig, or one without loadOverride
NoOverride == [has |-> FALSE, v |-> {}]
LoadOverride(list) == [has |-> TRUE, v |-> list]

\* the test of lines 178-185 on a constructor of Reflect.objToId
Loadable(ctor, config) ==
    /\ Truthy(GetMetadata(Class(ctor), "flamework:singleton"))
    /\ ~(/\ config.loadOverride.has
         /\ ctor \notin config.loadOverride.v
         /\ ~Truthy(GetOwnMetadata(Class(ctor), "flamework:isPatched")))
    /\ ~(/\ Truthy(GetOwnMetadata(Class(ctor), "flamework:isExternal"))
         /\ ctor \notin externalClasses)

\* an ignite(patchedConfig) that does not ask whether an external class was
\* registered
IgniteOverride_AllExternal(patchedConfig) ==
    /\ callStack = <<>>
    /\ ~IgniteSync
    /\ igniteCalls < MaxIgnite
    /\ igniteCalls' = igniteCalls + 1
    /\ IF hasFlameworkIgnited
       THEN /\ misuses' = misuses + 1
            /\ UNCHANGED <<hasFlameworkIgnited, ignitePc, rootsLeft, ignitions,
                           flameworkConfig>>
       ELSE LET config == IF patchedConfig.has
                          THEN [flameworkConfig EXCEPT !.loadOverride = patchedConfig]
                          ELSE flameworkConfig
            IN  /\ hasFlameworkIgnited' = TRUE
                /\ flameworkConfig' = config
                /\ ignitePc' = "roots"
                /\ ignitions' = ignitions + 1
                /\ rootsLeft' = {ctor \in {o \in Objects : objToId[o] # NoId} \cap Constructors :
                                    /\ Truthy(GetMetadata(Class(ctor), "flamework:singleton"))
                                    /\ ~(/\ config.loadOverride.has
                                         /\ ctor \notin config.loadOverride.v
                                         /\ ~Truthy(GetOwnMetadata(Class(ctor),
                                                                   "flamework:isPatched")))}
                /\ UNCHANGED misuses
    /\ UNCHANGED <<metadata, propertyMetadata, objToId, idToObj, externalClasses,
                   containerVars, dependencies, init, start, tick, initIndex,
                   startIndex, connected, igniteError, wired, log, registryVars,
                   threadVars, spawnVars>>
    /\ Quiet

\* ignite(patchedConfig), part_009 lines 167-189: the guard, the flag, the
\* configuration, and the constructors the loop over Reflect.objToId
\* resolves
IgniteOverride(patchedConfig) ==
    /\ callStack = <<>>
    /\ ~IgniteSync
    /\ igniteCalls < MaxIgnite
    /\ igniteCalls' = igniteCalls + 1
    /\ IF hasFlameworkIgnited
       THEN /\ misuses' = misuses + 1
            /\ UNCHANGED <<hasFlameworkIgnited, ignitePc, rootsLeft, ignitions,
                           flameworkConfig>>
       ELSE LET config == IF patchedConfig.has
                          THEN [flameworkConfig EXCEPT !.loadOverride = patchedConfig]
                          ELSE flameworkConfig
            IN  /\ hasFlameworkIgnited' = TRUE
                /\ flameworkConfig' = config
                /\ ignitePc' = "roots"
                /\ ignitions' = ignitions + 1
                /\ rootsLeft' = {ctor \in {o \in Objects : objToId[o] # NoId} \cap Constructors :
                                    Loadable(ctor, config)}
                /\ UNCHANGED misuses
    /\ UNCHANGED <<metadata, propertyMetadata, objToId, idToObj, externalClasses,
                   containerVars, dependencies, init, start, tick, initIndex,
                   startIndex, connected, igniteError, wired, log, registryVars,
                   threadVars, spawnVars>>
    /\ Quiet

\* what the decorators leave: A is a service, B and C are services or not,
\* A may depend on B or on an identifier nothing is registered under, B may
\* depend on A; with the optional marker A and C may carry it, with the
\* configuration B may be external
RootsMetadata(services, optional, external, params) ==
    [o \in Objects |->
        [key \in Keys |->
            CASE key = "identifier" /\ IdentifierIn(IgniteRegistry, o) # NoId ->
                    Present(IdentifierIn(IgniteRegistry, o))
              [] key = "flamework:singleton" /\ o \in services -> Present(BooleanValue(TRUE))
              [] key = "flamework:implements" /\ o \in Types -> Present(<<OnInit, OnStart>>)
              [] key = "flamework:parameters" /\ o \in DOMAIN params /\ params[o] # <<>> ->
                    Present(params[o])
              [] key = "flamework:optional" /\ o \in optional -> Present(BooleanValue(TRUE))
              [] key = "flamework:isExternal" /\ o \in external -> Present(BooleanValue(TRUE))
              [] OTHER -> Absent]]

LoadOverrides == {NoOverride, LoadOverride({"A"}), LoadOverride({"B", "C"})}
PatchIds == {IdC, IdMissing}

InitRoots ==
    /\ idToObj = IgniteRegistry
    /\ objToId = [o \in Objects |-> IdentifierIn(IgniteRegistry, o)]
    /\ propertyMetadata = NoProperties
    /\ externalClasses = {}
    /\ \E withConfig \in BOOLEAN :
       \E services \in {{"A"}, {"A", "B"}, {"A", "B", "C"}} :
       \E optional \in SUBSET {"A", "C"}, external \in SUBSET {"B"} :
       \E paramsA \in {<<>>, <<IdB>>, <<IdMissing>>}, paramsB \in {<<>>, <<IdA>>} :
            /\ flameworkConfig = [present |-> withConfig, loadOverride |-> NoOverride]
            /\ withConfig => optional = {}
            /\ ~withConfig => external = {}
            /\ metadata = RootsMetadata(services, optional, external,
                                        [o \in {"A", "B"} |-> IF o = "A" THEN paramsA
                                                              ELSE paramsB])
    /\ InitContainer
    /\ InitIgnite
    /\ handlers = {"return"}
    /\ isClient = FALSE

NextRoots ==
    \/ ~flameworkConfig.present /\ Ignite
    \/ ~flameworkConfig.present /\ \E ctor \in {"A", "C"} : IncludeOptionalClass(ctor)
    \/ flameworkConfig.present /\ \E patchedConfig \in LoadOverrides : IgniteOverride(patchedConfig)
    \/ flameworkConfig.present /\ RegisterExternalClass("B")
    \/ flameworkConfig.present /\ \E id \in PatchIds : PatchDependency("B", id)
    \/ \E ctor \in {"C"} : ResolveSingleton(ctor)
    \/ ResolveNextDependency
    \/ FinishConstruction
    \/ IgniteResolveSingleton
    \/ IgniteSort
    \/ IgniteInit
    \/ IgniteInitResumed
    \/ IgniteInitSettled
    \/ IgniteConnect
    \/ IgniteStart
    \/ Heartbeat

SpecRoots == InitRoots /\ [][NextRoots]_vars

\* the nearest own value of key on the parent chain of T is true
Marked(T, key) ==
    /\ Defining(T, key, NoProperty) # <<>>
    /\ Own(Head(Defining(T, key, NoProperty)), key, NoProperty) = Present(BooleanValue(TRUE))
\* T itself has the value true for key
OwnMarked(T, key) == Own(T, key, NoProperty) = Present(BooleanValue(TRUE))

\* the constructors ignite() looks at: those an identifier leads to, and
\* with the configuration those that have an identifier
Identified ==
    IF flameworkConfig.present
    THEN {ctor \in Constructors : objToId[ctor] # NoId}
    ELSE {ctor \in Constructors : \E id \in AllIds : idToObj[id] = ctor}

\* singleton-eligible, not optional (includeOptionalClass sets the marker
\* false), and with an allow-list on it or patched in
Eligible(ctor) ==
    /\ Marked(ctor, "flamework:singleton")
    /\ ~Marked(ctor, "flamework:optional")
    /\ flameworkConfig.loadOverride.has
            => ctor \in flameworkConfig.loadOverride.v \/ OwnMarked(ctor, "flamework:isPatched")

\* not external, or registered with registerExternalClass
Admitted(ctor) == OwnMarked(ctor, "flamework:isExternal") => ctor \in externalClasses

\* the step is the call of ignite() that goes past its guard
Ignites == ~hasFlameworkIgnited /\ hasFlameworkIgnited'

\* the step runs a constructor for the loop of ignite(): of the constructor
\* the loop resolves, or of a constructor dependency of the construction
\* that waits for it
RootConstructed == Len(callStack) = 1 /\ Top.ctor = call.ctor
DependencyConstructed ==
    /\ Len(callStack) >= 2
    /\ LET waiting == callStack[Len(callStack) - 1]
       IN  /\ waiting.index <= Len(ParametersOf(waiting.ctor))
           /\ idToObj[ParametersOf(waiting.ctor)[waiting.index]] = Top.ctor

\* the classes the collected singletons and the handler lists of ignite()
\* hold an instance of
Listed(list) == {list[i].obj.t : i \in 1..Len(list)}
Handled(list) == {list[i].t : i \in 1..Len(list)}
\* the classes that are a constructor dependency of a cached singleton
Needed ==
    UNION {{idToObj[ParametersOf(ctor)[k]] : k \in 1..Len(ParametersOf(ctor))} :
            ctor \in {c \in Constructors : resolvedSingletons[c] # Undefined}} \ {NoObject}

Resolved(id) ==
    /\ idToObj[id] \in Constructors
    /\ resolvedSingletons[idToObj[id]] # Undefined

\* patchDependency(patchedClass, id) moved what the original class had
Moved(patchedClass, id) ==
    /\ idToObj'[id] = patchedClass
    /\ objToId'[patchedClass] = id
    /\ metadata'[patchedClass] = [metadata[idToObj[id]] EXCEPT
                                    !["flamework:isPatched"] = Present(BooleanValue(TRUE))]
    /\ propertyMetadata'[patchedClass] = propertyMetadata[idToObj[id]]

\* C27: patchDependency(P, id) throws when id is not registered or when the
\* class registered under id is in the singleton cache, and a call that
\* threw changed no registry and no metadata; a call that succeeded leaves
\* id leading to P, which has the metadata of the original class, so that
\* resolving id constructs P from it; and ignite() never constructs a class
\* whose identifier leads to another class, as the original of a patch.
C27_Patch ==
    /\ [][\A id \in PatchIds :
            PatchDependency("B", id)
            => IF idToObj[id] = NoObject \/ Resolved(id)
               THEN call'.status = "threw" /\ UNCHANGED ReflectStore
               ELSE call'.status = "returned" /\ Moved("B", id)]_vars
    /\ [][call'.op = "patchDependency" /\ call'.status = "threw"
            => UNCHANGED <<ReflectStore, resolvedSingletons>>]_vars
    /\ [][ignitePc = "roots" /\ call.op = "ignite" /\ Constructs
            => idToObj[objToId[Top.ctor]] = Top.ctor]_vars

\* the errors of a resolution: a cycle, and an identifier that resolves to
\* nothing
ResolutionErrors == {"CircularDependency", "NoConstructor", "UnexpectedPrimitive"}

\* C28: when the resolution of a constructor that ignite() resolves throws
\* CircularDependency or an unresolved dependency, ignite() has failed with
\* that error; no init, start or recurring handler was invoked before, no
\* frame signal was connected, and neither happens afterwards.
C28_RootFailure ==
    /\ [][/\ call.op = "ignite" /\ call.status = "running"
          /\ call'.status = "threw"
          /\ call'.err.kind \in ResolutionErrors
          => ignitePc' = "failed" /\ igniteError' = call'.err]_vars
    /\ [][ignitePc = "failed" => ignitePc' = "failed" /\ igniteError' = igniteError]_vars
    /\ [](ignitePc = "failed" /\ igniteError.kind \in ResolutionErrors
            => /\ log = <<>>
               /\ ~connected
               /\ init = <<>> /\ start = <<>> /\ dependencies = <<>>
               /\ \A thread \in 1..MaxThreads : threads[thread] = NotRunning
               /\ frame.begun = {})

\* A depends on an identifier that nothing is registered under: ignite()
\* constructed B and then failed at A, and nothing was started
C28_Witness ==
    /\ ignitePc = "failed"
    /\ igniteError.kind = "NoConstructor"
    /\ igniteError.id = IdMissing
    /\ resolvedSingletons["B"] # Undefined
    /\ log = <<>>
    /\ ~connected

\* the position of the call of the start handler of obj in the log, 0 if none
StartCalled(obj) ==
    IF \E p \in 1..Len(log) : log[p] = Event("OnStart", obj)
    THEN CHOOSE p \in 1..Len(log) : log[p] = Event("OnStart", obj)
    ELSE 0

\* the handlers of the instance at place i of the final order were called
\* after those of the places before it
InPlace(i) ==
    /\ InitCalled(dependencies[i].obj) > 0
    /\ StartCalled(dependencies[i].obj) > 0
    /\ \A j \in 1..(i - 1) :
        /\ 0 < InitCalled(dependencies[j].obj)
        /\ InitCalled(dependencies[j].obj) < InitCalled(dependencies[i].obj)
        /\ 0 < StartCalled(dependencies[j].obj)
        /\ StartCalled(dependencies[j].obj) < StartCalled(dependencies[i].obj)

\* C30: ignite() does not resolve a type marked optional itself, but when a
\* constructor it resolves depends on the type, the type is constructed as
\* that dependency during ignite() and cached; it is collected with the
\* other cached singletons, and its init and start handlers are invoked at
\* its place in the final order.
C30_OptionalDependency ==
    /\ [][Ignites => \A T \in Types : Marked(T, "flamework:optional") => T \notin rootsLeft']_vars
    /\ [][/\ ignitePc = "roots" /\ call.op = "ignite" /\ Constructs
          /\ Marked(Top.ctor, "flamework:optional")
          => DependencyConstructed]_vars
    /\ [](\A R, T \in Types :
            resolvedSingletons[R] # Undefined /\ Edge(R, T) => resolvedSingletons[T] # Undefined)
    /\ [][ignitePc = "roots" /\ ignitePc' = "init"
            => \A T \in Types :
                Marked(T, "flamework:optional") /\ resolvedSingletons[T] # Undefined
                => /\ T \in Listed(dependencies')
                   /\ T \in Handled(init')
                   /\ T \in Handled(start')]_vars
    /\ [](ignitePc = "done"
            => \A i \in 1..Len(dependencies) :
                Marked(dependencies[i].obj.t, "flamework:optional") => InPlace(i))

\* C is optional and B depends on it: ignite() constructed C for B, and the
\* handlers of C were called before those of B
C30_Witness ==
    /\ ignitePc = "done"
    /\ Marked("C", "flamework:optional")
    /\ Edge("B", "C")
    /\ ctorRuns["C"] = 1
    /\ call.op = "ignite"
    /\ 0 < InitCalled(resolvedSingletons["C"])
    /\ InitCalled(resolvedSingletons["C"]) < InitCalled(resolvedSingletons["B"])
    /\ 0 < StartCalled(resolvedSingletons["C"])
    /\ StartCalled(resolvedSingletons["C"]) < StartCalled(resolvedSingletons["B"])

\* ------------------------------------------------------------------------
\* reuseThread(func) next to task.spawn(func) (SpecThreads): the program
\* dispatches handlers, which return, throw or suspend, some of them after
\* dispatching another handler themselves, and suspended handlers are
\* resumed; every dispatch is carried out by reuseThread on the coroutines
\* of part_012 and by task.spawn on tasks of its own, as part_009 does it.
\* ------------------------------------------------------------------------
\* the handlers dispatched in one run
MaxJobs == 4
JobNames == <<"j1", "j2", "j3", "j4", "j5", "j6">>

\* what a handler does: it may dispatch one more handler first
Behaviours ==
    {[nested |-> nested, outcome |-> outcome] :
        nested \in {<<>>} \cup {<<o>> : o \in SpawnOutcomes}, outcome \in SpawnOutcomes}
Leaf(outcome) == [nested |-> <<>>, outcome |-> outcome]

Began(job) == [ev |-> "begin", job |-> job]
Ended(job) == [ev |-> "end", job |-> job]
Errored(job) == [ev |-> "error", job |-> job]

\* the handlers that began, in this order
Begun(events) == SelectSeq(events, LAMBDA e : e.ev = "begin")
\* the names of the next handlers to be dispatched
JobAt(n) == JobNames[Len(Begun(spawnLog)) + n]

\* lines 140-146 without the test of line 143: the coroutine stays the
\* inactive one while it runs func
Enter_StaysInactive(thread, job, m) ==
    [th |-> [m.th EXCEPT !.threads[thread] = [status |-> "running", job |-> job]],
     log |-> Append(m.log, Began(job))]

\* lines 140-146: thread begins func
Enter(thread, job, m) ==
    [th |-> [inactiveThread |-> IF m.th.inactiveThread = thread THEN NoThread
                                ELSE m.th.inactiveThread,
             threads |-> [m.th.threads EXCEPT ![thread] = [status |-> "running", job |-> job]]],
     log |-> Append(m.log, Began(job))]

\* func is over in thread, lines 146-154, or has suspended
Leave(thread, outcome, m) ==
    CASE outcome = "return" ->
            [th |-> Finish(thread, m.th), log |-> Append(m.log, Ended(m.th.threads[thread].job))]
      [] outcome = "throw" ->
            [th |-> Fail(thread, m.th), log |-> Append(m.log, Errored(m.th.threads[thread].job))]
      [] outcome = "yield" ->
            [m EXCEPT !.th.threads[thread].status = "suspended"]

\* reuseThread(func), lines 172-178, for a handler that may dispatch another
\* one.  task.spawn(thread, func) resumes thread whatever it waits for: a
\* coroutine that waits at line 154 begins func; one that is suspended in a
\* handler goes on with that handler, which returns; one that is dead
\* cannot be resumed, and the error is reported.
RECURSIVE ReuseThreadOf(_, _, _, _)
ReuseThreadOf(job, next, behaviour, m) ==
    LET target == IF m.th.inactiveThread # NoThread THEN m.th.inactiveThread
                  ELSE FreshThread(m.th)
        status == m.th.threads[target].status
    IN  IF status = "suspended" THEN Leave(target, "return", m)
        ELSE IF status = "running" \/ (status = "none" /\ m.th.inactiveThread # NoThread)
        THEN m
        ELSE LET entered == Enter(target, job, m)
                 inner == IF behaviour.nested = <<>> THEN entered
                          ELSE ReuseThreadOf(next, next, Leaf(behaviour.nested[1]), entered)
             IN  Leave(target, behaviour.outcome, inner)

\* task.spawn(func), part_009 lines 216-222: a new task for every handler
RECURSIVE TaskSpawn(_, _, _, _)
TaskSpawn(job, next, behaviour, s) ==
    LET began == [s EXCEPT !.log = Append(@, Began(job))]
        inner == IF behaviour.nested = <<>> THEN began
                 ELSE TaskSpawn(next, next, Leaf(behaviour.nested[1]), began)
    IN  CASE behaviour.outcome = "return" -> [inner EXCEPT !.log = Append(@, Ended(job))]
          [] behaviour.outcome = "throw" -> [inner EXCEPT !.log = Append(@, Errored(job))]
          [] behaviour.outcome = "yield" -> [inner EXCEPT !.suspended = @ \cup {job}]

\* the coroutines a dispatch needs that do not exist yet
ThreadsNeeded(behaviour) ==
    (IF inactiveThread = NoThread THEN 1 ELSE 0) + Len(behaviour.nested)

\* everything but the coroutines, the tasks and what they ran
SpawnOnly ==
    /\ UNCHANGED <<reflectVars, containerVars, igniteVars, registryVars, handlers, isClient,
                   yielded>>
    /\ Quiet

\* the program dispatches a handler
DispatchHandler(behaviour) ==
    /\ Len(Begun(spawnLog)) + 1 + Len(behaviour.nested) <= MaxJobs
    /\ Cardinality(Free(Threads)) >= ThreadsNeeded(behaviour)
    /\ LET m == ReuseThreadOf(JobAt(1), JobAt(2), behaviour, [th |-> Threads, log |-> reuseLog])
           s == TaskSpawn(JobAt(1), JobAt(2), behaviour,
                          [suspended |-> spawned, log |-> spawnLog])
       IN  /\ SetThreads(m.th)
           /\ reuseLog' = m.log
           /\ spawned' = s.suspended
           /\ spawnLog' = s.log
    /\ SpawnOnly

\* what a suspended handler waited for happens: the handler goes on and
\* returns or throws
ResumeHandler(job, outcome) ==
    /\ job \in spawned
    /\ spawned' = spawned \ {job}
    /\ spawnLog' = Append(spawnLog, IF outcome = "return" THEN Ended(job) ELSE Errored(job))
    /\ IF \E thread \in Suspended : threads[thread].job = job
       THEN LET thread == CHOOSE thread \in Suspended : threads[thread].job = job
                m == Leave(thread, outcome, [th |-> Threads, log |-> reuseLog])
            IN  SetThreads(m.th) /\ reuseLog' = m.log
       ELSE UNCHANGED <<inactiveThread, threads, reuseLog>>
    /\ SpawnOnly

InitThreads ==
    /\ idToObj = IgniteRegistry
    /\ objToId = [o \in Objects |-> IdentifierIn(IgniteRegistry, o)]
    /\ metadata = DispatchMetadata
    /\ InitSetup
    /\ InitContainer
    /\ InitIgnite
    /\ handlers = SpawnOutcomes
    /\ isClient = TRUE

NextThreads ==
    \/ \E behaviour \in Behaviours : DispatchHandler(behaviour)
    \/ \E job \in spawned, outcome \in {"return", "throw"} : ResumeHandler(job, outcome)

SpecThreads == InitThreads /\ [][NextThreads]_vars

\* the handlers that are suspended in a coroutine of reuseThread
SuspendedJobs == {threads[thread].job : thread \in Suspended}

\* C29: dispatching through reuseThread and spawning a task for every call
\* cannot be told apart: the handlers begin, end and fail in the same
\* sequence under both, the same handlers are suspended, every dispatched
\* handler begins in the step of its dispatch, and none begins twice.
C29_Equivalent ==
    /\ [](reuseLog = spawnLog)
    /\ [](SuspendedJobs = spawned)
    /\ [][\A behaviour \in Behaviours :
            DispatchHandler(behaviour)
            => /\ Len(reuseLog') > Len(reuseLog)
               /\ reuseLog'[Len(reuseLog) + 1] = Began(JobAt(1))
               /\ behaviour.nested # <<>> => reuseLog'[Len(reuseLog) + 2] = Began(JobAt(2))]_vars
    /\ [](\A i, j \in 1..Len(Begun(reuseLog)) :
            Begun(reuseLog)[i] = Begun(reuseLog)[j] => i = j)

\* j1 dispatched j2, which suspended, and returned; j3 ran in the coroutine
\* j1 had left idle; then j2 was resumed and returned, and its coroutine
\* ended
C29_Witness ==
    /\ reuseLog = <<Began("j1"), Began("j2"), Ended("j1"), Began("j3"), Ended("j3"),
                    Ended("j2")>>
    /\ spawned = {}
    /\ inactiveThread # NoThread
    /\ \A thread \in 1..MaxThreads :
        threads[thread] = IF thread = inactiveThread THEN [status |-> "idle", job |-> NoJob]
                          ELSE NotRunning

\* ------------------------------------------------------------------------
\* Cycles and the resolution of a singleton (SpecResolve)
\* ------------------------------------------------------------------------
\* the classes that have a cached singleton
Cached == {ctor \in Constructors : resolvedSingletons[ctor] # Undefined}

\* the k-th constructor dependency of X is resolved as a registered type:
\* the callback of X does not answer it and no override is registered
FollowedEdge(X, k) ==
    LET id == ParametersOf(X)[k]
    IN  /\ ~(OptionsOf(X).hasHandle /\ id \in OptionsOf(X).answers)
        /\ ~dependencyResolution[id].has
        /\ idToObj[id] \in Constructors

Follows(X, Y) ==
    \E k \in 1..Len(ParametersOf(X)) : FollowedEdge(X, k) /\ idToObj[ParametersOf(X)[k]] = Y

\* following such edges from X leads to Y
Reaches(X, Y) ==
    \/ Follows(X, Y)
    \/ \E Z \in Types : Follows(X, Z) /\ Follows(Z, Y)
    \/ \E Z, W \in Types : Follows(X, Z) /\ Follows(Z, W) /\ Follows(W, Y)

\* the loading list holds the types under construction and nothing else
NoStaleLoading == Len(loadingList) = Len(callStack)

\* the step ends a call with an error (and is not a later step that leaves
\* the failed call as it is)
FailsNow == Failed /\ (callStack # <<>> \/ dependencyResolution' = dependencyResolution)

\* the loading list is a path of followed edges from the type the program
\* asked for to the innermost construction
LoadingPath ==
    /\ call.op = "resolveSingleton" => loadingList[1] = call.ctor
    /\ \A i \in 1..(Len(loadingList) - 1) : Follows(loadingList[i], loadingList[i + 1])

\* C33: starting with an empty loading list, a resolution fails with
\* CircularDependency exactly when the edges followed from the type asked
\* for (those resolved as registered types that are not cached) lead back
\* to a type under construction; a type that lies on such a cycle is never
\* cached; a resolution fails otherwise only on an unresolvable identifier
\* or in a constructor; and when resolveSingleton returns, the type and
\* every type reached over followed edges is cached.
C33_CycleExactly ==
    /\ [][NoStaleLoading /\ FailsNow /\ call'.err.kind = "CircularDependency"
            => /\ ReEntered
               /\ LoadingPath
               /\ Follows(Top.ctor, idToObj[NextId])]_vars
    /\ [][NoStaleLoading /\ ReEntered
            => Failed /\ call'.err.kind = "CircularDependency"]_vars
    /\ [][NoStaleLoading /\ FailsNow
            => \/ ReEntered
               \/ AtDependency /\ Unresolvable(NextId, Top.options)
               \/ callStack = <<>> /\ call'.op = "resolveDependency"
                                   /\ Unresolvable(call'.id, NoOptions)
               \/ call'.err.kind = "ConstructorError"]_vars
    /\ [](\A X \in Cached : ~Reaches(X, X))
    /\ [](\A X \in Cached : \A k \in 1..Len(ParametersOf(X)) :
            FollowedEdge(X, k) => idToObj[ParametersOf(X)[k]] \in Cached)
    /\ [](callStack = <<>> /\ call.op = "resolveSingleton" /\ call.status = "returned"
            => /\ call.val # Undefined
               /\ resolvedSingletons[call.ctor] = call.val)

\* resolveSingleton(B) constructed B and returned: B depends on A and A on
\* the identifier of B, which an override answered when A was constructed
C33_Witness ==
    /\ call.op = "resolveSingleton"
    /\ call.ctor = "B"
    /\ call.status = "returned"
    /\ ~call.cached
    /\ Edge("A", "B")
    /\ Edge("B", "A")
    /\ ~Follows("A", "B")
    /\ Follows("B", "A")
    /\ Cached = {"A", "B"}

\* ------------------------------------------------------------------------
\* Late singletons: A and B are services with OnInit and OnStart, B has
\* OnTick as well; C extends A, is optional, and has OnTick, OnPhysics and
\* OnRender of its own.  B may depend on C.  The program resolves C at any
\* moment ignite() is not running (before it, while an init handler is
\* suspended, after it returned or failed) and may unregister its instance;
\* the three frame signals fire at any such moment.
\* ------------------------------------------------------------------------
LateMetadata(params) ==
    [o \in Objects |->
        [key \in Keys |->
            CASE key = "identifier" /\ IdentifierIn(IgniteRegistry, o) # NoId ->
                    Present(IdentifierIn(IgniteRegistry, o))
              [] key = "flamework:singleton" /\ o \in {"A", "B"} -> Present(BooleanValue(TRUE))
              [] key = "flamework:optional" /\ o = "C" -> Present(BooleanValue(TRUE))
              [] key = "flamework:implements" /\ o = "A" -> Present(<<OnInit, OnStart>>)
              [] key = "flamework:implements" /\ o = "B" -> Present(<<OnInit, OnStart, OnTick>>)
              [] key = "flamework:implements" /\ o = "C" ->
                    Present(<<OnTick, OnPhysics, OnRender>>)
              [] key = "flamework:parameters" /\ o \in DOMAIN params -> Present(params[o])
              [] OTHER -> Absent]]

InitLate ==
    /\ idToObj = IgniteRegistry
    /\ objToId = [o \in Objects |-> IdentifierIn(IgniteRegistry, o)]
    /\ \E withParams \in SUBSET {"B"} :
            metadata = LateMetadata([o \in withParams |-> <<IdC>>])
    /\ InitSetup
    /\ InitContainer
    /\ InitIgnite
    /\ handlers = {"return"}
    /\ isClient \in BOOLEAN

NextLate ==
    \/ \E ctor \in {"C"} : ResolveSingleton(ctor)
    \/ ResolveNextDependency
    \/ FinishConstruction
    \/ Ignite
    \/ IgniteResolveSingleton
    \/ IgniteSort
    \/ IgniteInit
    \/ IgniteInitResumed
    \/ IgniteInitSettled
    \/ IgniteConnect
    \/ IgniteStart
    \/ Heartbeat
    \/ Stepped
    \/ RenderStepped
    \/ CallRemoveListener(Instance("C", 1))

SpecLate == InitLate /\ [][NextLate]_vars

\* ------------------------------------------------------------------------
\* Properties of late singletons (SpecLate)
\* ------------------------------------------------------------------------
RecurringEvents == {OnTick, OnPhysics, OnRender}

\* object is a cached singleton that ignite() did not collect at line 212,
\* although it has collected
LateSingleton(object) ==
    /\ wired
    /\ \E ctor \in Constructors : resolvedSingletons[ctor] = object
    /\ \A i \in 1..Len(dependencies) : dependencies[i].obj # object

\* the orchestrator invoked no init or start handler of a late singleton
NoLifecycleOfLate ==
    \A i \in 1..Len(log) : ~LateSingleton(log[i].obj)

\* C31: a singleton first resolved after ignite() collected the cached
\* singletons never has its init or start handler invoked, and every frame
\* signal that fires while it is registered begins its handler of the phase.
C31_LateEveryFrame ==
    /\ []NoLifecycleOfLate
    /\ [][\A event \in RecurringEvents :
            FrameSignal(event, LiveMap(event))
            => \A object \in DOMAIN listeners :
                    LateSingleton(object) /\ Implements(object, event)
                    => object \in frame'.begun]_vars

\* C31, for the frame signals ignite() has connected: a singleton first
\* resolved after ignite() collected the cached singletons never has its
\* init or start handler invoked, and every frame signal that fires after
\* ignite() connected the frame signals (lines 263-281) and while the
\* instance is registered begins its handler of the phase.
C31_LateConnectedFrame ==
    /\ []NoLifecycleOfLate
    /\ [][\A event \in RecurringEvents :
            connected /\ FrameSignal(event, LiveMap(event))
            => \A object \in DOMAIN listeners :
                    LateSingleton(object) /\ Implements(object, event)
                    => object \in frame'.begun]_vars

\* ignite() has returned after init and start handlers of A and B, C was
\* resolved after the collection and implements OnInit and OnStart through
\* A, and a Heartbeat has just begun the tick handler of C
C31_Witness ==
    /\ ignitePc = "done"
    /\ Len(log) >= 4
    /\ LateSingleton(Instance("C", 1))
    /\ Implements(Instance("C", 1), OnInit)
    /\ Implements(Instance("C", 1), OnStart)
    /\ frame.phase = OnTick
    /\ Instance("C", 1) \in frame.begun

\* every init handler of the init list has completed
InitCompleted ==
    /\ initIndex > Len(init)
    /\ \A k \in 1..Len(init) : \E j \in 1..Len(log) : log[j] = Event("OnInit done", init[k])

\* every start handler of the start list has been issued
StartIssued ==
    /\ startIndex > Len(start)
    /\ StartLog(log) = start

\* C34: a frame signal begins a tick, physics or render handler only when
\* every init handler has completed and every start handler has been
\* issued; a frame signal that fires while ignite() has not come so far,
\* be it while an init handler is suspended or waits for its promise,
\* begins none.
C34_RecurringLast ==
    /\ [](frame.begun # {} => InitCompleted /\ StartIssued /\ ignitePc = "done")
    /\ [][\A event \in RecurringEvents :
            FrameSignal(event, LiveMap(event)) /\ ~(InitCompleted /\ StartIssued)
            => frame'.begun = {} /\ threads' = threads /\ log' = log]_vars

\* an init handler is suspended; C was resolved during the suspension, so
\* that the tick map holds the singletons of B and C; the step after that
\* was a frame signal (no call of the registry, of ignite() or of
\* resolveSingleton), and it began nothing
C34_Witness ==
    /\ ignitePc = "initYield"
    /\ LateSingleton(Instance("C", 1))
    /\ {Instance("B", 1), Instance("C", 1)} \subseteq tick
    /\ Instance("C", 1) \in DOMAIN listeners
    /\ call.status = "returned"
    /\ ~call.cached
    /\ misuses = 0
    /\ fired = <<>>
    /\ frame = NoFrame

\* ------------------------------------------------------------------------
\* Cycles: A, B and C (which extends A) are services registered under their
\* own identifiers; A and B have no constructor dependency of their own or
\* one of IdA, IdB, IdC, and C has those of A, so that the edges may form
\* cycles.  The program registers an override, which lets a type of a cycle
\* be constructed, resolves C and calls ignite(), in any order.  A constructor that is called
\* returns, and a resolution that began goes on.
\* ------------------------------------------------------------------------
CyclesMetadata(params) ==
    [o \in Objects |->
        [key \in Keys |->
            CASE key = "identifier" /\ IdentifierIn(IgniteRegistry, o) # NoId ->
                    Present(IdentifierIn(IgniteRegistry, o))
              [] key = "flamework:singleton" /\ o \in {"A", "B"} -> Present(BooleanValue(TRUE))
              [] key = "flamework:parameters" /\ o \in DOMAIN params -> Present(params[o])
              [] OTHER -> Absent]]

InitCycles ==
    /\ idToObj = IgniteRegistry
    /\ objToId = [o \in Objects |-> IdentifierIn(IgniteRegistry, o)]
    /\ \E withParams \in SUBSET {"A", "B"} :
       \E params \in [withParams -> {<<IdA>>, <<IdB>>, <<IdC>>}] :
            metadata = CyclesMetadata(params)
    /\ InitSetup
    /\ InitContainer
    /\ InitIgnite
    /\ handlers = {"return"}
    /\ isClient = FALSE

\* a step of a resolution in progress
ResolutionStep == ResolveNextDependency \/ FinishConstruction

NextCycles ==
    \/ \E id \in {IdA, IdB} : RegisterDependency(id, FALSE)
    \/ \E ctor \in {"C"} : ResolveSingleton(ctor)
    \/ ResolveNextDependency
    \/ FinishConstruction
    \/ Ignite
    \/ IgniteResolveSingleton
    \/ IgniteSort

SpecCycles == InitCycles /\ [][NextCycles]_vars /\ WF_vars(ResolutionStep)

\* ------------------------------------------------------------------------
\* Properties of cyclic registrations (SpecCycles)
\* ------------------------------------------------------------------------
\* the record the traversal of topologicalSort(objects) ends with
Traversal(objects) ==
    VisitAll(objects, 1, [currentSize |-> 0,
                          sorted |-> [id \in AllIds |-> NoIndex],
                          visited |-> {}])

\* the traversal visited every identifier of objects and gave the visited
\* identifiers that are registered the indices 0 .. n-1, one each, and no
\* other identifier an index
OneIndexEach(objects) ==
    LET st == Traversal(objects)
        registered == {id \in st.visited : idToObj[id] # NoObject}
    IN  /\ \A i \in 1..Len(objects) : objects[i] \in st.visited
        /\ st.currentSize = Cardinality(registered)
        /\ \A id \in registered : st.sorted[id] \in 0..(Cardinality(registered) - 1)
        /\ \A id, other \in registered : st.sorted[id] = st.sorted[other] => id = other
        /\ \A id \in AllIds \ registered : st.sorted[id] = NoIndex
        /\ TopologicalSort(objects) = st.sorted

\* ignite() is about to order the cached singletons (lines 211-233)
AtOrdering == ignitePc = "roots" /\ callStack = <<>> /\ rootsLeft = {}

\* C32: every resolveSingleton call terminates, with an instance or an
\* error, and no type is under construction twice; the ordering traversal
\* of ignite() gives each visited registered identifier exactly one index,
\* also when the constructor dependency edges form a cycle.
C32_Terminates ==
    /\ (callStack # <<>> ~> callStack = <<>>)
    /\ [](callStack = <<>> /\ call.op # "none" => call.status \in {"returned", "threw"})
    /\ [](\A i, j \in 1..Len(callStack) : callStack[i].ctor = callStack[j].ctor => i = j)
    /\ [](AtOrdering =>
            \A order \in Orders(Cached) :
                OneIndexEach([i \in 1..Len(order) |-> GetIdentifier(resolvedSingletons[order[i]])]))

\* ignite() has ordered the singletons of A and B, which depend on each
\* other; B was constructed with the override registered for IdA
C32_Witness ==
    /\ ignitePc = "init"
    /\ Len(dependencies) >= 2
    /\ Edge("A", "B")
    /\ Edge("B", "A")
    /\ resolvedSingletons["A"] # Undefined
    /\ resolvedSingletons["B"] # Undefined
    /\ dependencyResolution[IdA].has

\* ------------------------------------------------------------------------
\* Cooperative tasks: a constructor may suspend (it waits for an instance,
\* a remote call, a timer); the coroutine that called resolveSingleton then
\* waits inside construct(), line 452, and other coroutines run.  They share
\* resolvedSingletons and loadingList.
\* ------------------------------------------------------------------------
\* resolutions that wait in a suspended constructor at the same time
MaxYields == 2

\* the constructor of the innermost construction suspends: the coroutine is
\* left with its call stack, and the scheduler runs others
ConstructorYields ==
    /\ callStack # <<>>
    /\ Top.index > Len(ParametersOf(Top.ctor))
    /\ Cardinality(yielded) < MaxYields
    /\ yielded' = yielded \cup {[callStack |-> callStack, call |-> call]}
    /\ callStack' = <<>>
    /\ call' = NoCall
    /\ UNCHANGED <<spawned, reuseLog, spawnLog, reflectVars, dependencyResolution,
                   resolvedSingletons, loadingList, listeners, nextObject, ctorRuns, returned,
                   igniteVars, registryVars, threadVars>>
    /\ Quiet

\* what a suspended constructor waited for happens while no other coroutine
\* runs: the coroutine goes on inside its constructor
ConstructorResumes ==
    /\ callStack = <<>>
    /\ ~IgniteSync
    /\ \E task \in yielded :
        /\ yielded' = yielded \ {task}
        /\ callStack' = task.callStack
        /\ call' = task.call
    /\ UNCHANGED <<spawned, reuseLog, spawnLog, reflectVars, dependencyResolution,
                   resolvedSingletons, loadingList, listeners, nextObject, ctorRuns, returned,
                   igniteVars, registryVars, threadVars>>
    /\ Quiet

\* A, B and C (which extends A) are registered under their own identifiers;
\* A depends on B or on nothing, and no identifier is unresolvable: the
\* dependency graph has no cycle
TasksMetadata(params) ==
    [o \in Objects |->
        [key \in Keys |->
            CASE key = "identifier" /\ IdentifierIn(IgniteRegistry, o) # NoId ->
                    Present(IdentifierIn(IgniteRegistry, o))
              [] key = "flamework:parameters" /\ o \in DOMAIN params -> Present(params[o])
              [] OTHER -> Absent]]

InitTasks ==
    /\ idToObj = IgniteRegistry
    /\ objToId = [o \in Objects |-> IdentifierIn(IgniteRegistry, o)]
    /\ \E withParams \in SUBSET {"A"} : metadata = TasksMetadata([o \in withParams |-> <<IdB>>])
    /\ InitSetup
    /\ InitContainer
    /\ InitIgnite
    /\ handlers = {"return"}
    /\ isClient = FALSE

NextTasks ==
    \/ \E ctor \in Types : ResolveSingleton(ctor)
    \/ ResolveNextDependency
    \/ FinishConstruction
    \/ ConstructorYields
    \/ ConstructorResumes

SpecTasks == InitTasks /\ [][NextTasks]_vars

\* ------------------------------------------------------------------------
\* Properties of cooperative tasks (SpecTasks)
\* ------------------------------------------------------------------------
\* resolveSingleton constructed at most one instance of each type
OneConstruction == \A ctor \in Constructors : ctorRuns[ctor] <= 1

\* an entry of the cache is not replaced
CacheKept ==
    \A ctor \in Constructors :
        resolvedSingletons[ctor] # Undefined => resolvedSingletons'[ctor] = resolvedSingletons[ctor]

\* a resolution fails with CircularDependency only for a type that depends
\* on itself
CircularOnlyOnCycle ==
    call.status = "threw" /\ call.err.kind = "CircularDependency"
        => DependsOn(call.err.ctor, call.err.ctor)

\* the step that removes an entry of the loading list removes the entry of
\* the construction that ends
PopsOwnEntry ==
    Len(loadingList') < Len(loadingList)
        => /\ callStack # <<>>
           /\ loadingList[Len(loadingList)] = Top.ctor
           /\ loadingList' = Pop(loadingList)

\* C35: when constructors suspend and other tasks resolve singletons in the
\* meantime, resolveSingleton still constructs at most one instance of a
\* type, no cache entry is overwritten, no resolution fails with
\* CircularDependency unless the dependency graph has a cycle, and every
\* task removes from the loading list the entries it pushed.
C35_TaskSafe ==
    /\ []OneConstruction
    /\ [][CacheKept]_vars
    /\ []CircularOnlyOnCycle
    /\ [][PopsOwnEntry]_vars

\* ------------------------------------------------------------------------
\* A callback that registers: the program subscribes, with onListenerAdded,
\* a callback that calls Modding.addListener(added) when it is called for
\* the first time, which happens during the replay of lines 183-185 and
\* 190-192.  The loop then iterates a table that got a new key, which Luau
\* leaves undefined: the new key lands before or behind the position of the
\* loop, and when the table is resized the keys change their places, so that
\* from there on the loop reaches any of the keys, each at most once.
\* ------------------------------------------------------------------------
\* the Set or Map object the replay iterates, line 181 and line 190
ReplayedSet(id, st) ==
    IF id = NoEvent THEN DOMAIN st.listeners
    ELSE IF st.lifecycleListeners[id].has THEN st.lifecycleListeners[id].v
    ELSE IF st.decoratorListeners[id].has THEN st.decoratorListeners[id].v
    ELSE {}

\* Modding.onListenerAdded(func, id), lines 176-195, for a callback that
\* calls addListener(added) in its first call; first is the listener the loop
\* reaches first and again those it reaches after the table has grown
OnListenerAddedRegistering(func, id, added, first, again, st) ==
    LET created == IF id = NoEvent \/ st.listenerAddedEvents[id].has THEN st
                   ELSE [st EXCEPT !.listenerAddedEvents[id] = Present(<<>>)]
        existingListeners == ReplayedSet(id, created)
        called == Invoke(func, first, created)
        registered == AddListenerTo(added, called)
        replayed == IF ReplayedSet(id, registered) # existingListeners
                    THEN Replay(func, again, registered)
                    ELSE Replay(func, existingListeners \ {first}, registered)
    IN  IF id # NoEvent
        THEN [replayed EXCEPT !.listenerAddedEvents[id] = Present(Append(@.v, func))]
        ELSE [replayed EXCEPT !.listenerAdded = Append(@, func)]

\* the program subscribes such a callback
CallOnListenerAddedRegistering(id, added) ==
    /\ ~IgniteSync
    /\ callStack = <<>>
    /\ Len(subscriptions) < MaxSubscriptions
    /\ added \notin DOMAIN listeners
    /\ added.n <= nextObject[added.t]
    /\ nextObject' = IF added.n = nextObject[added.t]
                     THEN [nextObject EXCEPT ![added.t] = @ + 1] ELSE nextObject
    /\ subscriptions' = Append(subscriptions, [signal |-> "added", id |-> id])
    /\ \E first \in ReplayedSet(id, Registry) :
       \E again \in SUBSET (ReplayedSet(id, Registry) \cup {added}) :
            SetRegistry(OnListenerAddedRegistering(Callback(Len(subscriptions) + 1), id, added,
                                                   first, again, Subscribed))
    /\ UNCHANGED <<spawnVars, reflectVars, dependencyResolution, resolvedSingletons, loadingList,
                   callStack, call, ctorRuns, returned,
                   hasFlameworkIgnited, ignitePc, rootsLeft, dependencies, init, start,
                   initIndex, startIndex, connected, igniteError, wired, igniteCalls,
                   ignitions, misuses, log, threadVars>>
    /\ QuietFrame

\* A and C list Both as a lifecycle event, B lists nothing: no identifier is
\* used as a lifecycle event and as a decorator of different classes
InitReplay ==
    /\ idToObj = IgniteRegistry
    /\ objToId = [o \in Objects |-> IdentifierIn(IgniteRegistry, o)]
    /\ metadata = ListenerMetadata(FALSE)
    /\ InitSetup
    /\ InitContainer
    /\ InitIgnite
    /\ handlers = {"return"}
    /\ isClient = FALSE

NextReplay ==
    \/ \E T \in Types : CallAddListener(Instance(T, 1))
    \/ \E T \in Types : CallRemoveListener(Instance(T, 1))
    \/ \E id \in {NoEvent, Both} : CallOnListenerAdded(id)
    \/ \E id \in {NoEvent, Both}, T \in Types : CallOnListenerAddedRegistering(id, Instance(T, 1))

SpecReplay == InitReplay /\ [][NextReplay]_vars

\* ------------------------------------------------------------------------
\* Properties of the replay (SpecReplay)
\* ------------------------------------------------------------------------
\* C36: when a call of onListenerAdded(callback, id) returns, the callback
\* has been called exactly once for every instance that is registered in
\* its scope by then, also for an instance the callback itself registered
\* during the replay, and for no other instance.
C36_ReplayOnce ==
    [][Len(subscriptions') = Len(subscriptions) + 1 =>
        LET n == Len(subscriptions')
        IN  \A id \in EventIds \cup {NoEvent}, o \in Instances :
                subscriptions'[n].id = id
                => received'[n][o] = IF o \in Scope(id)' THEN 1 ELSE 0]_vars

\* ------------------------------------------------------------------------
\* The listener records and the interest sets (SpecListeners)
\* ------------------------------------------------------------------------
\* the set a back-reference of a listener record points to
Involved(entry) == Registry[entry.which][entry.id]

\* the identifiers of the sets a listener record refers to
InvolvementIds(listener) ==
    {listener.involvement[k].id : k \in DOMAIN listener.involvement}

\* C37: whenever a call of addListener or removeListener has returned, an
\* instance is a member of the interest set of an identifier exactly when
\* the registry holds a listener record of the instance whose eventIds
\* contain the identifier; the record refers to one set for each of its
\* identifiers, and each of these sets exists and holds the instance.  This
\* is so after an instance was registered twice and after an instance that
\* is not registered was unregistered.
C37_InterestSets ==
    /\ \A id \in EventIds, o \in Instances :
        o \in InterestSet(id) <=> (o \in DOMAIN listeners /\ id \in listeners[o].eventIds)
    /\ \A o \in DOMAIN listeners :
        /\ InvolvementIds(listeners[o]) = listeners[o].eventIds
        /\ Len(listeners[o].involvement) = Cardinality(listeners[o].eventIds)
        /\ \A k \in DOMAIN listeners[o].involvement :
            /\ Involved(listeners[o].involvement[k]).has
            /\ o \in Involved(listeners[o].involvement[k]).v

\* an instance of C is registered under its three identifiers, while the
\* instance of A was registered and unregistered and the interest set it was
\* in is still there
C37_Witness ==
    /\ Instance("C", 1) \in DOMAIN listeners
    /\ listeners[Instance("C", 1)].eventIds = {Both, OnTick, Marker}
    /\ nextObject["A"] > 1
    /\ Instance("A", 1) \notin DOMAIN listeners
    /\ lifecycleListeners[Both].has
    /\ Instance("A", 1) \notin lifecycleListeners[Both].v
    /\ Instance("C", 1) \in lifecycleListeners[Both].v

\* ------------------------------------------------------------------------
\* The identifier in the metadata store and in the identity registry
\* (SpecReflect)
\* ------------------------------------------------------------------------
\* C38: after any sequence of defineMetadata, defineMetadataBatch and
\* deleteMetadata, the own metadata of a type has the string v under the key
\* "identifier" exactly when objToId maps the type to v and idToObj maps v
\* to the type.
C38_IdentifierAgrees ==
    \A T \in Objects, v \in AllIds :
        metadata[T]["identifier"] = Present(v)
        <=> (objToId[T] = v /\ idToObj[v] = T)

\* ------------------------------------------------------------------------
\* Singletons without an identifier of their own: A is a service registered
\* under IdA; B and C are registered under their own identifiers or not at
\* all.  C extends A, so an unregistered C reads the identifier of A; an
\* unregistered B has none.  B has no constructor dependency or depends on
\* A.  The program resolves B and C itself, before or after it calls
\* ignite().
\* ------------------------------------------------------------------------
OrderingRegistry(own) ==
    [id \in AllIds |-> CASE id = IdA -> "A"
                         [] id = IdB /\ "B" \in own -> "B"
                         [] id = IdC /\ "C" \in own -> "C"
                         [] id = IdArtificial -> ArtificialDependency
                         [] OTHER -> NoObject]

OrderingMetadata(registry, loadOrders, params) ==
    [o \in Objects |->
        [key \in Keys |->
            CASE key = "identifier" /\ IdentifierIn(registry, o) # NoId ->
                    Present(IdentifierIn(registry, o))
              [] key = "flamework:parameters" /\ o \in DOMAIN params -> Present(params[o])
              [] key = "flamework:singleton" /\ o = "A" -> Present(BooleanValue(TRUE))
              [] key = "flamework:loadOrder" /\ o \in DOMAIN loadOrders ->
                    Present(NumberValue(loadOrders[o]))
              [] OTHER -> Absent]]

InitOrdering ==
    /\ \E own \in SUBSET {"B", "C"}, withOrder \in SUBSET Types :
       \E loadOrders \in [withOrder -> LoadOrders], withParams \in SUBSET {"B"} :
            /\ idToObj = OrderingRegistry(own)
            /\ objToId = [o \in Objects |-> IdentifierIn(OrderingRegistry(own), o)]
            /\ metadata = OrderingMetadata(OrderingRegistry(own), loadOrders,
                                           [o \in withParams |-> <<IdA>>])
    /\ InitSetup
    /\ InitContainer
    /\ InitIgnite
    /\ handlers = {"return"}
    /\ isClient = FALSE

NextOrdering ==
    \/ \E ctor \in {"B", "C"} : ResolveSingleton(ctor)
    \/ ResolveNextDependency
    \/ FinishConstruction
    \/ Ignite
    \/ IgniteResolveSingleton
    \/ IgniteSort

SpecOrdering == InitOrdering /\ [][NextOrdering]_vars

\* ------------------------------------------------------------------------
\* Properties of the ordering step (SpecOrdering)
\* ------------------------------------------------------------------------
\* the pairs of instance and load order ignite() collects, lines 211-215,
\* when the cache is iterated in the given order
CollectedPairs(order) ==
    [i \in 1..Len(order) |->
        [obj |-> resolvedSingletons[order[i]], loadOrder |-> LoadOrderOf(order[i])]]

\* the indices topologicalSort returns for the collected instances, line 217
IndicesOf(order) ==
    TopologicalSort([i \in 1..Len(order) |-> GetIdentifier(CollectedPairs(order)[i].obj)])

\* C39: when ignite() orders the cached singletons, every cached singleton
\* has a topological index, two different cached singletons have different
\* indices, and of two different cached singletons of equal load order the
\* comparator puts exactly one before the other; this is so for singletons
\* without an identifier and for singletons that read the identifier of
\* their parent as well.
C39_IndexEach ==
    AtOrdering =>
        \A order \in Orders(Cached) :
            LET deps == CollectedPairs(order)
                sortedDependencies == IndicesOf(order)
                index(i) == sortedDependencies[GetIdentifier(deps[i].obj)]
            IN  /\ \A i \in 1..Len(deps) : index(i) # NoIndex
                /\ \A i, j \in 1..Len(deps) : i # j => index(i) # index(j)
                /\ \A i, j \in 1..Len(deps) :
                    i # j /\ deps[i].loadOrder = deps[j].loadOrder
                    => (Before(deps[i], deps[j], sortedDependencies)
                        # Before(deps[j], deps[i], sortedDependencies))

\* ------------------------------------------------------------------------
\* The inactive coroutine (SpecThreads)
\* ------------------------------------------------------------------------
\* inactiveThread is empty or a coroutine that waits at line 154
SlotIdle(th) ==
    th.inactiveThread = NoThread \/ th.threads[th.inactiveThread].status = "idle"

\* no coroutine waits at line 154 but the inactive one
OneIdle(th) ==
    \A thread \in 1..MaxThreads :
        th.threads[thread].status = "idle" => thread = th.inactiveThread

\* the coroutines while the handler of a dispatch runs, and when the handler
\* it dispatched itself has returned, thrown or suspended
DuringDispatch(behaviour) ==
    LET m == [th |-> Threads, log |-> reuseLog]
        target == IF inactiveThread # NoThread THEN inactiveThread ELSE FreshThread(Threads)
        entered == Enter(target, JobAt(1), m)
        inner == IF behaviour.nested = <<>> THEN entered
                 ELSE ReuseThreadOf(JobAt(2), JobAt(2), Leaf(behaviour.nested[1]), entered)
    IN  <<target, entered.th, inner.th>>

\* C40: inactiveThread is empty or holds a coroutine that waits at its
\* hand-off point (line 154) for the next function, never one that runs a
\* handler, is suspended inside a handler or has ended, and no other
\* coroutine waits there; this is so between the dispatches and inside a
\* dispatch, while the handler runs and after a dispatch of its own, so
\* reuseThread resumes only a coroutine that waits for a function.
C40_IdleSlot ==
    /\ SlotIdle(Threads)
    /\ OneIdle(Threads)
    /\ \A behaviour \in Behaviours :
        /\ Len(Begun(spawnLog)) + 1 + Len(behaviour.nested) <= MaxJobs
        /\ Cardinality(Free(Threads)) >= ThreadsNeeded(behaviour)
        => LET during == DuringDispatch(behaviour)
           IN  /\ threads[during[1]].status \in {"idle", "none"}
               /\ during[2].threads[during[1]].status = "running"
               /\ during[2].inactiveThread = NoThread
               /\ SlotIdle(during[3])
               /\ OneIdle(during[3])
               /\ during[3].inactiveThread # during[1]

\* a handler threw and its coroutine ended, another one is suspended in its
\* coroutine, and a third coroutine waits for the next function
C40_Witness ==
    /\ \E i \in 1..Len(reuseLog) : reuseLog[i].ev = "error"
    /\ inactiveThread # NoThread
    /\ threads[inactiveThread].status = "idle"
    /\ \E thread \in 1..MaxThreads : threads[thread].status = "suspended"

====
